---- MODULE Spec2Model ----
(***************************************************************************)
(* Model of the contact-extraction engine of Working-Data-Scraper:         *)
(* WebScraper (src/src/scraper/WebScraper.js) and DataProcessor.           *)
(*                                                                         *)
(* JavaScript strings are TLA+ strings.  Regular expressions are values    *)
(* (syntax trees) interpreted by a backtracking matcher that follows the   *)
(* ECMAScript priority order (leftmost start, greedy quantifiers, ordered  *)
(* alternation), so that String.prototype.match / replace / test yield     *)
(* the substrings the engine yields.                                       *)
(***************************************************************************)
EXTENDS Integers, Sequences, FiniteSets, TLC

VARIABLES
    rawData,    \* the page handed to the scraper: title, textContent, content
    emails,     \* outcome of the latest call of extractEmails on rawData
    phones,     \* outcome of the latest call of extractPhoneNumbers
    names,      \* outcome of the latest call of extractNames
    result,     \* outcome of processScrapedData(rawData)
    scored,     \* the latest confidence computed for one record
    memo,       \* every (operation, arguments, outcome) observed so far
    crawler,    \* the EnhancedWebScraper instance, the site it crawls and its crawl in progress
    monitor,    \* the BrowserMonitor instance, its polls in flight and the events it emitted
    db,         \* the DatabaseManager instance, its contacts table and its calls in flight
    ui,         \* the renderer's DataScraperUI, its two buttons and its calls in flight
    main        \* the main process: its scraper, its flag and its handlers in flight

vars == <<rawData, emails, phones, names, result, scored, memo, crawler, monitor, db, ui, main>>

(***************************************************************************)
(* Characters                                                              *)
(***************************************************************************)
\* The printable ASCII characters in code-unit order: codes 32..95 and 97..126
\* (the grave accent, code 96, cannot be written in a TLA+ string and is left
\* out of the alphabet).
AsciiLo == " !\"#$%&'()*+,-./0123456789:;<=>?@ABCDEFGHIJKLMNOPQRSTUVWXYZ[\\]^_"
AsciiHi == "abcdefghijklmnopqrstuvwxyz{|}~"

Chars(s) == [i \in 1..Len(s) |-> SubSeq(s, i, i)]

NL == "\n"

Printable == {SubSeq(AsciiLo, i, i) : i \in 1..64} \cup {SubSeq(AsciiHi, i, i) : i \in 1..30}

Alphabet == Printable \cup {NL}

Digit == {"0", "1", "2", "3", "4", "5", "6", "7", "8", "9"}
Upper == {"A", "B", "C", "D", "E", "F", "G", "H", "I", "J", "K", "L", "M",
          "N", "O", "P", "Q", "R", "S", "T", "U", "V", "W", "X", "Y", "Z"}
Lower == {"a", "b", "c", "d", "e", "f", "g", "h", "i", "j", "k", "l", "m",
          "n", "o", "p", "q", "r", "s", "t", "u", "v", "w", "x", "y", "z"}
Letter == Upper \cup Lower
WordChar == Letter \cup Digit \cup {"_"}
Space == {" ", NL}
NotIn(S) == Alphabet \ S

\* UTF-16 code unit of a character (String.prototype.charCodeAt).
Code ==
    [c \in Alphabet |->
        IF c = NL THEN 10
        ELSE IF c \in Lower \cup {"{", "|", "}", "~"}
             THEN 96 + (CHOOSE k \in 1..30 : SubSeq(AsciiHi, k, k) = c)
        ELSE 31 + (CHOOSE k \in 1..64 : SubSeq(AsciiLo, k, k) = c)]

CharOf(n) == IF n <= 95 THEN SubSeq(AsciiLo, n - 31, n - 31) ELSE SubSeq(AsciiHi, n - 96, n - 96)

Range(a, b) == {c \in Printable : Code[a] <= Code[c] /\ Code[c] <= Code[b]}

LowerOf == [c \in Alphabet |-> IF c \in Upper THEN CharOf(Code[c] + 32) ELSE c]
UpperOf == [c \in Alphabet |-> IF c \in Lower THEN CharOf(Code[c] - 32) ELSE c]

\* A character class under the i flag.
CI(S) == S \cup {LowerOf[c] : c \in S} \cup {UpperOf[c] : c \in S}

(***************************************************************************)
(* Sequence helpers                                                        *)
(***************************************************************************)
Min(a, b) == IF a < b THEN a ELSE b

\* Array.prototype.filter((x, i, arr) => arr.indexOf(x) === i); also the
\* insertion order kept by a Set.
Dedup(seq) ==
    LET Keep(first) == [k \in 1..Len(first) |-> seq[first[k]]]
    IN  Keep(SelectSeq([i \in 1..Len(seq) |-> i], LAMBDA i : \A j \in 1..(i - 1) : seq[j] # seq[i]))

\* The concatenation of seqs[lo], ..., seqs[hi] (sequences or strings).
RECURSIVE FlattenRange(_, _, _, _)
FlattenRange(seqs, lo, hi, empty) ==
    IF lo > hi THEN empty
    ELSE IF lo = hi THEN seqs[lo]
    ELSE FlattenRange(seqs, lo, (lo + hi) \div 2, empty)
         \o FlattenRange(seqs, (lo + hi) \div 2 + 1, hi, empty)

Flatten(seqs) == FlattenRange(seqs, 1, Len(seqs), <<>>)

Map(seq, F(_)) == [i \in 1..Len(seq) |-> F(seq[i])]

Contains(seq, x) == \E i \in 1..Len(seq) : seq[i] = x

Concat(strs) == FlattenRange(strs, 1, Len(strs), "")

(***************************************************************************)
(* Regular expressions: syntax trees                                       *)
(***************************************************************************)
Inf == 1000 * 1000

Set(S) == [t |-> "set", s |-> S]
Str(lit) == [t |-> "str", s |-> lit, i |-> FALSE]
\* A literal under the i flag.
StrI(lit) == [t |-> "str", s |-> lit, i |-> TRUE]
Cat(rs) == [t |-> "cat", rs |-> rs]
Alt(rs) == [t |-> "alt", rs |-> rs]
Rep(r, lo, hi) == [t |-> "rep", r |-> r, lo |-> lo, hi |-> hi, lazy |-> FALSE]
Lazy(r, lo, hi) == [t |-> "rep", r |-> r, lo |-> lo, hi |-> hi, lazy |-> TRUE]
Opt(r) == [t |-> "rep", r |-> r, lo |-> 0, hi |-> 1, lazy |-> FALSE]
Star(r) == [t |-> "rep", r |-> r, lo |-> 0, hi |-> Inf, lazy |-> FALSE]
Plus(r) == [t |-> "rep", r |-> r, lo |-> 1, hi |-> Inf, lazy |-> FALSE]
WB == [t |-> "wb"]
BOL == [t |-> "bol"]
EOL == [t |-> "eol"]
\* The dot: any character but a line terminator.
Dot == [t |-> "set", s |-> Alphabet \ {NL}]
\* Alternation of literals, (a|b|c), with or without the i flag.
AltStr(lits) == [t |-> "alt", rs |-> [k \in 1..Len(lits) |-> [t |-> "str", s |-> lits[k], i |-> FALSE]]]
AltStrI(lits) == [t |-> "alt", rs |-> [k \in 1..Len(lits) |-> [t |-> "str", s |-> lits[k], i |-> TRUE]]]

(***************************************************************************)
(* The matcher.  Ends(r, cs, i) is the sequence of positions at which a    *)
(* match of r that starts at position i (i characters consumed) can end,   *)
(* in the order in which a backtracking matcher tries them, each position  *)
(* listed once: its head is the end of the match the engine reports.       *)
(***************************************************************************)
\* The length, at most max, of the run of characters of S that starts after
\* position i, scanned sixteen characters at a time.
RECURSIVE RunLen(_, _, _, _)
RunLen(S, cs, i, max) ==
    LET Scan(hi) ==
            LET Stop(stops) ==
                    IF stops # <<>> THEN Head(stops)
                    ELSE IF hi = Min(Len(cs) - i, max) THEN hi
                    ELSE hi + RunLen(S, cs, i + hi, max - hi)
            IN  Stop(SelectSeq([k \in 1..hi |-> k - 1], LAMBDA k : cs[i + k + 1] \notin S))
    IN  Scan(Min(16, Min(Len(cs) - i, max)))

IsWordAt(cs, i) == i >= 1 /\ i <= Len(cs) /\ cs[i] \in WordChar

\* The literal r.s stands after position i, letter case ignored under the i flag.
StrAt(r, cs, i) ==
    /\ i + Len(r.s) <= Len(cs)
    /\ \A k \in 1..Len(r.s) :
          IF r.i THEN LowerOf[cs[i + k]] = LowerOf[SubSeq(r.s, k, k)]
          ELSE cs[i + k] = SubSeq(r.s, k, k)

RECURSIVE Ends(_, _, _), EndsFromAll(_, _, _, _, _), CatEnds(_, _, _, _), AltEnds(_, _, _, _), RepEnds(_, _, _, _), RepFromAll(_, _, _, _, _)

EndsFromAll(r, cs, starts, lo, hi) ==
    IF lo > hi THEN <<>>
    ELSE IF lo = hi THEN Ends(r, cs, starts[lo])
    ELSE EndsFromAll(r, cs, starts, lo, (lo + hi) \div 2)
         \o EndsFromAll(r, cs, starts, (lo + hi) \div 2 + 1, hi)

CatEnds(rs, k, cs, starts) ==
    IF k > Len(rs) \/ starts = <<>> THEN starts
    ELSE CatEnds(rs, k + 1, cs, Dedup(EndsFromAll(rs[k], cs, starts, 1, Len(starts))))

AltEnds(rs, k, cs, i) ==
    IF k > Len(rs) THEN <<>>
    ELSE Ends(rs[k], cs, i) \o AltEnds(rs, k + 1, cs, i)

RepFromAll(r, cs, starts, k, n) ==
    IF k > Len(starts) THEN <<>>
    ELSE RepEnds(r, cs, starts[k], n) \o RepFromAll(r, cs, starts, k + 1, n)

\* n iterations of r.r are done and the matcher stands at i.
RepEnds(r, cs, i, n) ==
    LET Order(stop, more) == Dedup(IF r.lazy THEN stop \o more ELSE more \o stop)
    IN  Order(IF n >= r.lo THEN <<i>> ELSE <<>>,
              IF n < r.hi
              THEN RepFromAll(r, cs, SelectSeq(Ends(r.r, cs, i), LAMBDA j : j # i), 1, n + 1)
              ELSE <<>>)

\* The ends of a repetition of a character class whose run after i has length k.
RunEnds(r, i, k) ==
    IF k < r.lo THEN <<>>
    ELSE [j \in 1..(k - r.lo + 1) |-> IF r.lazy THEN i + r.lo + j - 1 ELSE i + k - j + 1]

Ends(r, cs, i) ==
    CASE r.t = "set" -> IF i < Len(cs) /\ cs[i + 1] \in r.s THEN <<i + 1>> ELSE <<>>
      [] r.t = "str" -> IF StrAt(r, cs, i) THEN <<i + Len(r.s)>> ELSE <<>>
      [] r.t = "cat" -> CatEnds(r.rs, 1, cs, <<i>>)
      [] r.t = "alt" -> Dedup(AltEnds(r.rs, 1, cs, i))
      [] r.t = "rep" ->
            IF r.r.t = "set" THEN RunEnds(r, i, RunLen(r.r.s, cs, i, r.hi))
            ELSE RepEnds(r, cs, i, 0)
      [] r.t = "wb" -> IF IsWordAt(cs, i) # IsWordAt(cs, i + 1) THEN <<i>> ELSE <<>>
      [] r.t = "bol" -> IF i = 0 THEN <<i>> ELSE <<>>
      [] r.t = "eol" -> IF i = Len(cs) THEN <<i>> ELSE <<>>

\* The first match at or after position p: <<start, end>>, or <<>>.  The
\* start positions are tried in increasing order, a block at a time.
RECURSIVE FindFrom(_, _, _)
FindFrom(r, cs, p) ==
    LET First(hits) ==
            IF hits = <<>> THEN FindFrom(r, cs, Min(p + 31, Len(cs)) + 1)
            ELSE <<hits[1][1], hits[1][2][1]>>
    IN  IF p > Len(cs) THEN <<>>
        ELSE First(SelectSeq([k \in 1..(Min(p + 31, Len(cs)) - p + 1) |-> <<p + k - 1, Ends(r, cs, p + k - 1)>>],
                             LAMBDA h : h[2] # <<>>))

RECURSIVE MatchAllFrom(_, _, _, _)
MatchAllFrom(r, s, cs, p) ==
    LET Rest(m) ==
            IF m = <<>> THEN <<>>
            ELSE <<SubSeq(s, m[1] + 1, m[2])>>
                 \o MatchAllFrom(r, s, cs, IF m[2] > m[1] THEN m[2] ELSE m[1] + 1)
    IN  Rest(FindFrom(r, cs, p))

\* s.match(r) || [] for a regular expression with the g flag.
MatchAll(r, s) == MatchAllFrom(r, s, Chars(s), 0)

\* r.test(s) for a regular expression without the g flag.
Test(r, s) == FindFrom(r, Chars(s), 0) # <<>>

\* s.replace(r, ...) for a regular expression with the g flag, where With(m)
\* is the replacement for the matched substring m.
ReplaceAllBy(r, s, With(_)) ==
    LET RECURSIVE ReplaceFrom(_, _)
        ReplaceFrom(cs, p) ==
            LET Step(m) ==
                    IF m = <<>> THEN SubSeq(s, p + 1, Len(s))
                    ELSE SubSeq(s, p + 1, m[1]) \o With(SubSeq(s, m[1] + 1, m[2]))
                         \o (IF m[2] > m[1] THEN ReplaceFrom(cs, m[2])
                             ELSE IF m[1] >= Len(s) THEN ""
                             ELSE SubSeq(s, m[1] + 1, m[1] + 1) \o ReplaceFrom(cs, m[1] + 1))
            IN  Step(FindFrom(r, cs, p))
    IN  ReplaceFrom(Chars(s), 0)

\* s.replace(r, with) for a replacement string with no $ pattern.
ReplaceAll(r, s, with) == ReplaceAllBy(r, s, LAMBDA m : with)

\* s.replace(r, with) for a regular expression without the g flag.
ReplaceFirst(r, s, with) ==
    LET Put(m) == IF m = <<>> THEN s ELSE SubSeq(s, 1, m[1]) \o with \o SubSeq(s, m[2] + 1, Len(s))
    IN  Put(FindFrom(r, Chars(s), 0))

\* The first capture group of the first match of pre(grp)suf in s, as the
\* one-element sequence <<group>>; <<>> when there is no match (null).
RECURSIVE GroupIn(_, _, _, _, _), GroupAt(_, _, _, _, _, _)
GroupIn(suf, s, cs, j, es) ==
    IF es = <<>> THEN <<>>
    ELSE IF Ends(suf, cs, Head(es)) # <<>> THEN <<SubSeq(s, j + 1, Head(es))>>
    ELSE GroupIn(suf, s, cs, j, Tail(es))

GroupAt(grp, suf, s, cs, js, k) ==
    LET Or(g) == IF g # <<>> THEN g ELSE GroupAt(grp, suf, s, cs, js, k + 1)
    IN  IF k > Len(js) THEN <<>>
        ELSE Or(GroupIn(suf, s, cs, js[k], Ends(grp, cs, js[k])))

CaptureFrom(pre, grp, suf, s, cs, p) ==
    LET Group(m) == IF m = <<>> THEN <<>> ELSE GroupAt(grp, suf, s, cs, Ends(pre, cs, m[1]), 1)
    IN  Group(FindFrom([t |-> "cat", rs |-> <<pre, grp, suf>>], cs, p))

Capture(pre, grp, suf, s) == CaptureFrom(pre, grp, suf, s, Chars(s), 0)

Empty == [t |-> "cat", rs |-> <<>>]

(***************************************************************************)
(* String.prototype helpers                                                *)
(***************************************************************************)
ToLower(s) == Concat([i \in 1..Len(s) |-> LowerOf[SubSeq(s, i, i)]])
ToUpper(s) == Concat([i \in 1..Len(s) |-> UpperOf[SubSeq(s, i, i)]])

Includes(s, sub) == \E i \in 0..(Len(s) - Len(sub)) : SubSeq(s, i + 1, i + Len(sub)) = sub
StartsWith(s, sub) == Len(sub) <= Len(s) /\ SubSeq(s, 1, Len(sub)) = sub
EndsWith(s, sub) == Len(sub) <= Len(s) /\ SubSeq(s, Len(s) - Len(sub) + 1, Len(s)) = sub

Trim(s) ==
    LET Cut(keep) ==
            IF keep = {} THEN ""
            ELSE SubSeq(s, CHOOSE i \in keep : \A j \in keep : i <= j,
                           CHOOSE i \in keep : \A j \in keep : j <= i)
    IN  Cut({i \in 1..Len(s) : SubSeq(s, i, i) \notin Space})

\* s.split(c) for a one-character separator c.
RECURSIVE SplitFrom(_, _, _, _)
SplitFrom(s, c, from, k) ==
    IF k > Len(s) THEN <<SubSeq(s, from, Len(s))>>
    ELSE IF SubSeq(s, k, k) = c THEN <<SubSeq(s, from, k - 1)>> \o SplitFrom(s, c, k + 1, k + 1)
    ELSE SplitFrom(s, c, from, k + 1)

Split(s, c) == SplitFrom(s, c, 1, 1)

\* s.split(/\s+/)
RECURSIVE SplitWSFrom(_, _, _, _)
SplitWSFrom(s, cs, from, k) ==
    LET Skip(n) == <<SubSeq(s, from, k - 1)>> \o SplitWSFrom(s, cs, k + n, k + n)
    IN  IF k > Len(s) THEN <<SubSeq(s, from, Len(s))>>
        ELSE IF cs[k] \in Space THEN Skip(RunLen(Space, cs, k - 1, Inf))
        ELSE SplitWSFrom(s, cs, from, k + 1)

SplitWS(s) == SplitWSFrom(s, Chars(s), 1, 1)

Last(seq) == seq[Len(seq)]

\* a < b in the order of Array.prototype.sort() without a comparator
\* (UTF-16 code units, a proper prefix first).
RECURSIVE LessFrom(_, _, _)
LessFrom(a, b, k) ==
    IF k > Len(a) THEN k <= Len(b)
    ELSE IF k > Len(b) THEN FALSE
    ELSE IF SubSeq(a, k, k) = SubSeq(b, k, k) THEN LessFrom(a, b, k + 1)
    ELSE Code[SubSeq(a, k, k)] < Code[SubSeq(b, k, k)]

StrLess(a, b) == LessFrom(a, b, 1)

\* Stable insertion sort; Before(a, b) holds when a must come before b.
SortBy(seq, Before(_, _)) ==
    LET RECURSIVE Insert(_, _), SortFrom(_, _)
        Insert(sorted, x) ==
            IF sorted = <<>> THEN <<x>>
            ELSE IF Before(x, sorted[Len(sorted)])
                 THEN Append(Insert(SubSeq(sorted, 1, Len(sorted) - 1), x), sorted[Len(sorted)])
            ELSE Append(sorted, x)
        SortFrom(k, acc) ==
            IF k > Len(seq) THEN acc ELSE SortFrom(k + 1, Insert(acc, seq[k]))
    IN  SortFrom(1, <<>>)

\* Array.prototype.sort() without a comparator.
Sort(seq) == SortBy(seq, StrLess)

\* Array.prototype.slice(0, n)
Slice(seq, n) == SubSeq(seq, 1, Min(Len(seq), n))

\* Set.prototype.add for each element of xs, in order: a Set keeps the
\* insertion order and ignores a value it already holds.
AddAll(set, xs) == Dedup(set \o xs)

\* /(.)\1{n - 1,}/.test(s): some character, not a line terminator, is
\* repeated n or more times in a row.
HasRepeat(s, n) ==
    \E i \in 1..(Len(s) - n + 1) :
        /\ SubSeq(s, i, i) # NL
        /\ \A k \in 1..(n - 1) : SubSeq(s, i + k, i + k) = SubSeq(s, i, i)


(***************************************************************************)
(* JavaScript values passed as arguments                                   *)
(***************************************************************************)
JsString(s) == [type |-> "string", v |-> s]
JsUndefined == [type |-> "undefined", v |-> ""]
JsNull == [type |-> "null", v |-> ""]
JsNumber == [type |-> "number", v |-> "42"]

\* The outcome of a call: a returned list, or a thrown TypeError.
Return(list) == [called |-> TRUE, threw |-> FALSE, value |-> list]
Throw == [called |-> TRUE, threw |-> TRUE, value |-> <<>>]
\* No call has been made yet.
NotCalled == [called |-> FALSE, threw |-> FALSE, value |-> <<>>]

\* JavaScript truthiness of an argument (if (html) ...).
Truthy(x) == x.type = "number" \/ (x.type = "string" /\ x.v # "")

(***************************************************************************)
(* WebScraper: e-mail patterns                                             *)
(***************************************************************************)
WS0 == Star(Set(Space))
WS1 == Plus(Set(Space))
Quote == Set({"'", "\""})
NotQuote == Set(NotIn({"'", "\""}))

\* EMAIL_REGEX_STRING, compiled with the flags ig.
AtomSet == CI(Lower \cup Digit \cup {"!", "#", "$", "%", "&", "'", "*", "+", "/", "=", "?", "^", "_", "{", "|", "}", "~", "-"})
QPair == Cat(<<Str("\\"), Set(Alphabet \ {NL})>>)
QText == Set({"!"} \cup Range("#", "[") \cup Range("]", "~"))
DText == Set(Range("!", "Z") \cup Range("S", "~"))
LabelEdge == Set(CI(Lower \cup Digit))
LabelMid == Set(CI(Lower \cup Digit) \cup {"-"})
Label == Cat(<<LabelEdge, Opt(Cat(<<Star(LabelMid), LabelEdge>>))>>)
Octet3 == <<Cat(<<Str("25"), Set(Range("0", "5"))>>),
            Cat(<<Str("2"), Set(Range("0", "4")), Set(Digit)>>),
            Cat(<<Opt(Set({"0", "1"})), Set(Digit), Opt(Set(Digit))>>)>>
IpLiteral ==
    Cat(<<Str("["), Rep(Cat(<<Alt(Octet3), Str(".")>>), 3, 3),
          Alt(Octet3 \o <<Cat(<<Star(LabelMid), LabelEdge, Str(":"), Plus(Alt(<<DText, QPair>>))>>)>>),
          Str("]")>>)
EMAIL_REGEX_GLOBAL ==
    Cat(<<Alt(<<Cat(<<Plus(Set(AtomSet)), Star(Cat(<<Str("."), Plus(Set(AtomSet))>>))>>),
                Cat(<<Str("\""), Star(Alt(<<QText, QPair>>)), Str("\"")>>)>>),
          Str("@"),
          Alt(<<Cat(<<Plus(Cat(<<Label, Str(".")>>)), Label>>), IpLiteral>>)>>)

\* [A-Za-z0-9._%+-]+ , [A-Za-z0-9.-]+ and [A-Z|a-z]{2,}
LocalPart == Plus(Set(Letter \cup Digit \cup {".", "_", "%", "+", "-"}))
DomainPart == Plus(Set(Letter \cup Digit \cup {".", "-"}))
TldPart == Rep(Set(Letter \cup {"|"}), 2, Inf)
\* [A-Za-z0-9._%+-]+@[A-Za-z0-9.-]+\.[A-Z|a-z]{2,}
PlainEmail == Cat(<<LocalPart, Str("@"), DomainPart, Str("."), TldPart>>)

Obfuscated(at, dot) == Cat(<<WB, LocalPart, at, DomainPart, dot, TldPart, WB>>)

emailPatterns ==
    <<EMAIL_REGEX_GLOBAL,
      Cat(<<WB, PlainEmail, WB>>),
      Obfuscated(Cat(<<WS0, Str("["), WS0, StrI("at"), WS0, Str("]"), WS0>>),
                 Cat(<<WS0, Str("["), WS0, StrI("dot"), WS0, Str("]"), WS0>>)),
      Obfuscated(Cat(<<WS0, Str("("), WS0, StrI("at"), WS0, Str(")"), WS0>>),
                 Cat(<<WS0, Str("("), WS0, StrI("dot"), WS0, Str(")"), WS0>>)),
      Obfuscated(Cat(<<WS1, StrI("at"), WS1>>), Cat(<<WS1, StrI("dot"), WS1>>)),
      Obfuscated(Str("&#64;"), Str("&#46;")),
      Obfuscated(StrI("&at;"), StrI("&dot;")),
      Obfuscated(Cat(<<WS1, Str("@"), WS1>>), Cat(<<WS1, Str("."), WS1>>)),
      Obfuscated(Cat(<<WS0, Str("{"), WS0, Str("@"), WS0, Str("}"), WS0>>),
                 Cat(<<WS0, Str("{"), WS0, Str("."), WS0, Str("}"), WS0>>))>>

\* The replacements of cleanObfuscatedEmail, in the order of the calls of replace.
obfuscationReplacements ==
    <<<<Cat(<<WS0, Str("["), WS0, StrI("at"), WS0, Str("]"), WS0>>), "@">>,
      <<Cat(<<WS0, Str("["), WS0, StrI("dot"), WS0, Str("]"), WS0>>), ".">>,
      <<Cat(<<WS0, Str("("), WS0, Str("@"), WS0, Str(")"), WS0>>), "@">>,
      <<Cat(<<WS0, Str("("), WS0, Str("."), WS0, Str(")"), WS0>>), ".">>,
      <<Cat(<<WS1, Str("@"), WS1>>), "@">>,
      <<Cat(<<WS1, Str("."), WS1>>), ".">>,
      <<Set(Space), "">>>>

\* s.replace(r1, w1).replace(r2, w2)... for the first k replacements of the list.
RECURSIVE ReplaceEach(_, _, _)
ReplaceEach(replacements, k, s) ==
    IF k = 0 THEN s
    ELSE ReplaceAll(replacements[k][1], ReplaceEach(replacements, k - 1, s), replacements[k][2])

cleanObfuscatedEmail(email) == ReplaceEach(obfuscationReplacements, 7, email)

NotSpaceAt == Plus(Set(NotIn(Space \cup {"@"})))

isValidEmail(email) ==
    /\ Test(Cat(<<BOL, NotSpaceAt, Str("@"), NotSpaceAt, Str("."), NotSpaceAt, EOL>>), email)
    /\ Len(email) <= 254
    /\ ~StartsWith(email, ".")
    /\ ~EndsWith(email, ".")
    /\ ~Includes(email, "..")
    /\ Len(Split(email, "@")) = 2

\* email.split('@')[1], the empty string standing for undefined.
Second(parts) == IF Len(parts) >= 2 THEN parts[2] ELSE ""

ValidDomain(domain, tld) ==
    /\ domain # ""
    /\ ~(Len(domain) < 3 \/ Len(domain) > 255)
    /\ Includes(domain, ".")
    /\ ~(StartsWith(domain, ".") \/ EndsWith(domain, "."))
    /\ ~Includes(domain, "..")
    /\ ~(tld = "" \/ Len(tld) < 2 \/ Len(tld) > 6)
    /\ Test(Cat(<<BOL, Rep(Set(Letter), 2, 6), EOL>>), tld)

isValidEmailDomain(email) ==
    ValidDomain(Second(Split(email, "@")), Last(Split(Second(Split(email, "@")), ".")))

(***************************************************************************)
(* WebScraper.isEmailFalsePositive                                         *)
(***************************************************************************)
emailFalsePositives ==
    {"test@example.com", "user@example.com", "admin@example.com",
     "info@example.com", "support@example.com", "contact@example.com",
     "noreply@example.com", "no-reply@example.com", "hello@example.com",
     "mail@example.com", "email@example.com", "name@example.com",
     "test@test.com", "admin@test.com", "user@test.com",
     "test@localhost", "admin@localhost", "user@localhost",
     "test@domain.com", "user@domain.com", "example@domain.com",
     "your.email@example.com", "youremail@example.com",
     "jane@example.com", "john@example.com", "doe@example.com",
     "jane.doe@example.com", "john.doe@example.com", "john.smith@example.com",
     "info@yoursite.com", "contact@yoursite.com", "admin@yoursite.com",
     "info@yourcompany.com", "contact@yourcompany.com",
     "info@company.com", "contact@company.com",
     "share@facebook.com", "like@facebook.com", "post@facebook.com",
     "tweet@twitter.com", "share@twitter.com", "follow@twitter.com"}

domainFalsePositives ==
    {"example.com", "example.org", "example.net",
     "test.com", "test.org", "test.net",
     "domain.com", "yourdomain.com", "yoursite.com",
     "company.com", "yourcompany.com", "mycompany.com",
     "website.com", "yourwebsite.com",
     "sample.com", "demo.com", "localhost", "local",
     "tempuri.org", "tempuri.com",
     "dev.local", "test.local", "staging.com",
     "dev.example.com", "test.example.com"}

emailPlaceholderWords ==
    {"lorem", "ipsum", "placeholder", "sample", "test", "dummy", "fake", "mock",
     "default", "example", "demo", "temp", "temporary", "invalid",
     "enter", "insert", "put", "type", "write", "click"}

NotAt == Set(NotIn({"@"}))
NotDot == Set(NotIn({"."}))

emailSuspiciousPatterns ==
    <<Cat(<<BOL, Alt(<<Cat(<<StrI("no"), Opt(Str("-")), StrI("reply")>>),
                       Cat(<<StrI("do"), Opt(Str("-")), StrI("not"), Opt(Str("-")), StrI("reply")>>),
                       StrI("noreply")>>), Str("@")>>),
      Cat(<<BOL, AltStrI(<<"bounce", "mailer-daemon", "postmaster">>), Str("@")>>),
      Cat(<<BOL, AltStrI(<<"info", "support", "admin", "webmaster", "postmaster">>), Str("@"),
            Star(Dot), Str("."), AltStrI(<<"test", "local", "localhost">>), EOL>>),
      Cat(<<BOL, AltStrI(<<"test", "admin", "user", "demo">>), Str("@"),
            AltStrI(<<"test", "demo", "local", "localhost">>), Str(".")>>),
      Cat(<<BOL, Plus(Set(Digit)), Str("@"), Plus(Set(Digit)), Str("."), Plus(Set(Digit)), EOL>>),
      Cat(<<BOL, Set(Letter), Str("@"), Set(Letter), Str("."), Rep(Set(Letter), 2, 3), EOL>>),
      Cat(<<BOL, Rep(Dot, 1, 2), Str("@"), Rep(Dot, 1, 2), Str(".")>>),
      Cat(<<BOL, Plus(NotAt), Str("@"), Plus(NotDot), EOL>>),
      Cat(<<BOL, Rep(NotAt, 1, 2), Str("@"), Plus(Dot)>>),
      Cat(<<BOL, Plus(Dot), Str("@"), Rep(NotDot, 1, 2), Str("."), Plus(Dot)>>),
      Set({"<", ">", "\"", "'"}),
      Cat(<<BOL, Plus(Set(Digit)), Star(Set(Lower)), Str("@"), Plus(Dot)>>),
      Cat(<<BOL, Plus(Set(Letter)), Plus(Set(Digit)), StrI("@example"), Str(".")>>),
      Cat(<<BOL, AltStrI(<<"contact", "info", "support">>), Str("@"),
            AltStrI(<<"company", "business", "website", "site">>), Str(".")>>),
      Cat(<<BOL, StrI("email@"), AltStrI(<<"company", "business", "website", "site">>), Str(".")>>),
      Cat(<<BOL, AltStrI(<<"your", "my">>), AltStrI(<<"email", "mail", "address">>), Str("@")>>),
      Cat(<<Str("@"), Plus(NotDot), Str("."),
            AltStrI(<<"test", "local", "invalid", "localhost", "example">>), EOL>>)>>

invalidTlds == {"test", "local", "localhost", "invalid", "example"}

FalsePositiveEmail(lowerEmail, domain, tld) ==
    \/ lowerEmail = ""
    \/ domain = ""
    \/ lowerEmail \in emailFalsePositives
    \/ domain \in domainFalsePositives
    \/ \E word \in emailPlaceholderWords : Includes(lowerEmail, word)
    \/ \E sub \in {"..", "@.", ".@"} : Includes(lowerEmail, sub)
    \/ \E s \in {lowerEmail, domain} : StartsWith(s, ".") \/ EndsWith(s, ".")
    \/ Includes(domain, "..")
    \/ HasRepeat(lowerEmail, 5)
    \/ \E k \in 1..Len(emailSuspiciousPatterns) : Test(emailSuspiciousPatterns[k], lowerEmail)
    \/ Len(tld) < 2 \/ Len(tld) > 6
    \/ ~Test(Cat(<<BOL, Plus(Set(Letter)), EOL>>), tld)
    \/ tld \in invalidTlds

isEmailFalsePositive(email) ==
    FalsePositiveEmail(ToLower(email), Second(Split(email, "@")),
                       Last(Split(Second(Split(email, "@")), ".")))

(***************************************************************************)
(* WebScraper.extractEmails                                                *)
(***************************************************************************)
\* /href\s*=\s*['""]([^'""]+)['"]/ : what precedes the group, and the group.
HrefOpen == Cat(<<StrI("href"), WS0, Str("="), WS0, Quote>>)
linkRegex == Cat(<<HrefOpen, Plus(NotQuote), Quote>>)

\* The first capture groups of the matches, nulls dropped.
Groups(matches, pre, grp, suf) ==
    Flatten([i \in 1..Len(matches) |-> Capture(pre, grp, suf, matches[i])])

extractUrlsFromHtml(html) ==
    Groups(MatchAll(linkRegex, html), HrefOpen, Plus(NotQuote), Quote)

EMAIL_URL_PREFIX_REGEX == Cat(<<BOL, StrI("mailto:")>>)

IsMailto(url) == url # "" /\ Test(EMAIL_URL_PREFIX_REGEX, url)

MailtoAddress(url) == Trim(Split(ReplaceFirst(EMAIL_URL_PREFIX_REGEX, url, ""), "?")[1])

emailsFromUrls(urls) == SelectSeq(Map(SelectSeq(urls, IsMailto), MailtoAddress), isValidEmail)

MailtoTarget == Plus(Set(NotIn({"'", "\"", "?"})))
mailtoRegex ==
    Cat(<<StrI("href"), WS0, Str("="), WS0, Quote, WS0, StrI("mailto:"), MailtoTarget,
          Opt(Cat(<<Str("?"), Star(NotQuote)>>)), Quote>>)

OptQuote == Opt(Quote)

jsEmailPatterns ==
    <<Cat(<<Quote, PlainEmail, Quote>>),
      Cat(<<StrI("email"), WS0, Set({":", "="}), WS0, OptQuote, PlainEmail, OptQuote>>),
      Cat(<<StrI("contact"), WS0, Set({":", "="}), WS0, OptQuote, PlainEmail, OptQuote>>),
      Cat(<<StrI("data-email"), WS0, Str("="), WS0, Quote, PlainEmail, Quote>>),
      Cat(<<StrI("var"), WS1, Star(Set(WordChar)), StrI("email"), Star(Set(WordChar)), WS0,
            Str("="), WS0, Quote, PlainEmail, Quote>>)>>

emailSchemaPatterns ==
    <<Cat(<<StrI("\"email\":"), WS0, Str("\""), PlainEmail, Str("\"")>>),
      Cat(<<StrI("\"contactPoint\":"), Star(Set(NotIn({"}"}))), StrI("\"email\":"), WS0,
            Str("\""), PlainEmail, Str("\"")>>),
      Cat(<<StrI("itemprop"), WS0, Str("="), WS0, Quote, StrI("email"), Quote,
            Star(Set(NotIn({">"}))), StrI("content"), WS0, Str("="), WS0, Quote, PlainEmail, Quote>>)>>

\* All matches of all patterns, pattern by pattern (patterns.forEach(... match ...)).
MatchesOfAll(patterns, s) == Flatten([k \in 1..Len(patterns) |-> MatchAll(patterns[k], s)])

\* The candidates as found, without toLowerCase().
LowerAll_asFound(list) == list

LowerAll(list) == [i \in 1..Len(list) |-> ToLower(list[i])]

\* const emails = new Set()
NewSet == <<>>

\* The Set of candidates after the pass over text (lines 534-543).
EmailsFromText(text) ==
    LET cleaned == Map(MatchesOfAll(emailPatterns, text), cleanObfuscatedEmail)
    IN  LowerAll(SelectSeq(cleaned, LAMBDA e : e # "" /\ isValidEmail(e)))

\* The passes over html without those over links (lines 564-599 alone).
EmailsFromHtml_noLinks(html) ==
    LET js == Groups(MatchesOfAll(jsEmailPatterns, html), Empty, PlainEmail, Empty)
        schema == Groups(MatchesOfAll(emailSchemaPatterns, html), Opt(Str("\"")), PlainEmail, Opt(Str("\"")))
    IN  LowerAll(SelectSeq(js \o schema, isValidEmail))

\* The candidates the passes over html add, in order (lines 546-599).
EmailsFromHtml(html) ==
    LET fromUrls == emailsFromUrls(extractUrlsFromHtml(html))
        mailto == Map(Groups(MatchAll(mailtoRegex, html), StrI("mailto:"), MailtoTarget, Empty), Trim)
        js == Groups(MatchesOfAll(jsEmailPatterns, html), Empty, PlainEmail, Empty)
        schema == Groups(MatchesOfAll(emailSchemaPatterns, html), Opt(Str("\"")), PlainEmail, Opt(Str("\"")))
    IN  LowerAll(fromUrls \o SelectSeq(mailto \o js \o schema, isValidEmail))

\* Lines 606-607 alone: sort and remove duplicates, nothing filtered.
FilterEmails_unfiltered(found) == Dedup(Sort(found))

\* Lines 602-607: filter, sort, remove duplicates.
FilterEmails(found) ==
    LET valid == SelectSeq(found, isValidEmail)
        real == SelectSeq(valid, LAMBDA e : ~isEmailFalsePositive(e))
        okDomain == SelectSeq(real, isValidEmailDomain)
    IN  Dedup(Sort(okDomain))

\* return filtered, without slice(0, 15).
EmailCap_unbounded(filtered) == filtered

\* return filtered.slice(0, 15)
EmailCap(filtered) == Slice(filtered, 15)

\* The Set after the passes over text and html.
EmailSet(text, html) ==
    AddAll(AddAll(NewSet, EmailsFromText(text)), IF Truthy(html) THEN EmailsFromHtml(html.v) ELSE <<>>)

extractEmails(text, html) ==
    IF text.type # "string" THEN Throw
    ELSE IF Truthy(html) /\ html.type # "string" THEN Throw
    ELSE Return(EmailCap(FilterEmails(EmailSet(text.v, html))))

(***************************************************************************)
(* WebScraper: phone numbers                                               *)
(***************************************************************************)
D(lo, hi) == Rep(Set(Digit), lo, hi)
OptSp == Opt(Str(" "))

\* ([0-9]{1,4}( )?)?\([0-9]{2,4}\)( )?[0-9]{2,4}(( )?(-|.))?( )?[0-9]{2,6}
ParenPhone ==
    Cat(<<Opt(Cat(<<D(1, 4), OptSp>>)), Str("("), D(2, 4), Str(")"), OptSp, D(2, 4),
          Opt(Cat(<<OptSp, Alt(<<Str("-"), Dot>>)>>)), OptSp, D(2, 6)>>)

PHONE_REGEX_STRINGS ==
    <<D(6, 15),
      ParenPhone,
      Cat(<<Str("("), D(2, 2), Str(")"), OptSp, D(4, 5), Str("-"), D(4, 4)>>),
      ParenPhone,
      Cat(<<D(2, 4), Str("-"), D(2, 4), Str("-"), D(2, 4), Str("-"), D(2, 6)>>),
      Cat(<<D(2, 4), Str("-"), D(2, 4), Str("-"), D(2, 6)>>),
      Cat(<<D(2, 4), Str("-"), D(2, 6)>>),
      Cat(<<D(2, 4), Str("."), D(2, 4), Str("."), D(2, 4), Str("."), D(2, 6)>>),
      Cat(<<D(2, 4), Str("."), D(2, 4), Str("."), D(2, 6)>>),
      Cat(<<D(2, 4), Str("."), D(2, 6)>>),
      Cat(<<D(2, 4), Str(" "), D(2, 4), Str(" "), D(2, 4), Str(" "), D(2, 6)>>),
      Cat(<<D(2, 4), Str(" "), D(2, 4), Str(" "), D(2, 6)>>),
      Cat(<<D(2, 4), Str(" "), D(3, 8)>>)>>

\* new RegExp(`(00|\\+)?${regex}`, 'ig')
phonePatterns ==
    [k \in 1..Len(PHONE_REGEX_STRINGS) |-> Cat(<<Opt(AltStr(<<"00", "+">>)), PHONE_REGEX_STRINGS[k]>>)]

cleanPhoneNumber(phone) == ReplaceAll(Set(NotIn(Digit \cup {"+"})), phone, "")

DigitsOnly(phone) == ReplaceAll(Set(NotIn(Digit)), phone, "")

SKIP_PHONE_REGEXS ==
    <<Cat(<<BOL, D(4, 4), Str("-"), D(2, 2), Str("-"), D(2, 2), EOL>>),
      Cat(<<BOL, D(4, 4), Str("/"), D(2, 2), Str("/"), D(2, 2), EOL>>),
      Cat(<<BOL, D(2, 2), Str("/"), D(2, 2), Str("/"), D(4, 4), EOL>>),
      Cat(<<BOL, D(8, Inf), EOL>>)>>

\* The US/Canada branch and the fall-through of isValidPhoneNumber (lines 867-890).
ValidAfterSkip(cleaned) ==
    IF StartsWith(cleaned, "+") THEN Len(cleaned) >= 8 /\ Len(cleaned) <= 15
    ELSE IF Len(cleaned) = 10 \/ (Len(cleaned) = 11 /\ StartsWith(cleaned, "1"))
         THEN LET number == IF StartsWith(cleaned, "1") THEN SubSeq(cleaned, 2, Len(cleaned)) ELSE cleaned
              IN  IF Len(number) = 10
                  THEN LET areaCode == SubSeq(number, 1, 3)
                           exchange == SubSeq(number, 4, 6)
                       IN  /\ ~(StartsWith(areaCode, "0") \/ StartsWith(areaCode, "1"))
                           /\ ~(StartsWith(exchange, "0") \/ StartsWith(exchange, "1"))
                  ELSE Len(cleaned) >= 7 /\ Len(cleaned) <= 15
    ELSE Len(cleaned) >= 7 /\ Len(cleaned) <= 15

\* isValidPhoneNumber without the test of SKIP_PHONE_REGEXS (lines 858-866).
isValidPhoneNumber_noSkip(cleaned) ==
    /\ Len(DigitsOnly(cleaned)) >= 7
    /\ ~(Len(cleaned) < 7 \/ Len(cleaned) > 15)
    /\ ValidAfterSkip(cleaned)

isValidPhoneNumber(cleaned) ==
    /\ Len(DigitsOnly(cleaned)) >= 7
    /\ ~(Len(cleaned) < 7 \/ Len(cleaned) > 15)
    /\ ~Test(Alt(SKIP_PHONE_REGEXS), cleaned)
    /\ ValidAfterSkip(cleaned)

Formatted(phone, cleaned) ==
    IF Len(cleaned) = 10
    THEN "(" \o SubSeq(cleaned, 1, 3) \o ") " \o SubSeq(cleaned, 4, 6) \o "-" \o SubSeq(cleaned, 7, 10)
    ELSE IF Len(cleaned) = 11 /\ StartsWith(cleaned, "1")
    THEN "+1 (" \o SubSeq(cleaned, 2, 4) \o ") " \o SubSeq(cleaned, 5, 7) \o "-" \o SubSeq(cleaned, 8, 11)
    ELSE Trim(phone)

\* formatPhoneNumber with the 11-character branch rendered like the 10-character
\* one, the leading 1 left out.
formatPhoneNumber_noCountryCode(phone) ==
    Formatted(phone, IF Len(cleanPhoneNumber(phone)) = 11 /\ StartsWith(cleanPhoneNumber(phone), "1")
                     THEN SubSeq(cleanPhoneNumber(phone), 2, 11) ELSE cleanPhoneNumber(phone))

formatPhoneNumber(phone) == Formatted(phone, cleanPhoneNumber(phone))

tollFreePrefix == Cat(<<BOL, Opt(Str("1")), AltStr(<<"800", "833", "844", "855", "866", "877", "888">>)>>)

\* classifyPhoneType; cleaned is phone.replace(/[^\d]/g, '').
PhoneTypeOf(cleaned) ==
    IF Test(tollFreePrefix, cleaned) THEN "toll-free"
    ELSE IF Len(cleaned) = 10 \/ (Len(cleaned) = 11 /\ StartsWith(cleaned, "1")) THEN "us-local"
    ELSE IF StartsWith(cleaned, "+") THEN "international"
    ELSE "other"

classifyPhoneType(phone) == PhoneTypeOf(DigitsOnly(phone))

\* DataProcessor.formatPhone
DP_Formatted(phone, digits) ==
    IF Len(digits) = 10
    THEN "(" \o SubSeq(digits, 1, 3) \o ") " \o SubSeq(digits, 4, 6) \o "-" \o SubSeq(digits, 7, 10)
    ELSE IF Len(digits) = 11 /\ StartsWith(digits, "1")
    THEN "+1 (" \o SubSeq(digits, 2, 4) \o ") " \o SubSeq(digits, 5, 7) \o "-" \o SubSeq(digits, 8, 11)
    ELSE IF Len(digits) > 11 THEN "+" \o digits
    ELSE phone

DP_formatPhone(phone) == DP_Formatted(phone, DigitsOnly(phone))

phoneFalsePositives ==
    {"1234567890", "0000000000", "1111111111", "2222222222",
     "3333333333", "4444444444", "5555555555", "6666666666",
     "7777777777", "8888888888", "9999999999",
     "1234567800", "0987654321",
     "5551234567", "8005551234", "5551212000", "5552345678",
     "5551234", "5559876", "5551212",
     "1234567", "9876543", "5555555", "1111111",
     "0123456789", "1230984567"}

phoneDatePatterns ==
    <<Cat(<<BOL, D(4, 4), D(2, 2), D(2, 2), EOL>>),
      Cat(<<BOL, D(2, 2), D(2, 2), D(4, 4), EOL>>),
      Cat(<<BOL, D(4, 4), EOL>>),
      Cat(<<BOL, D(8, 8), EOL>>)>>

SequentialStart ==
    Cat(<<BOL, AltStr(<<"012", "123", "234", "345", "456", "567", "678", "789", "890",
                        "987", "876", "765", "654", "543", "432", "321", "210">>)>>)

phonePlaceholderWords ==
    {"xxx", "yyy", "zzz", "test", "phone", "number", "call", "dial", "contact", "placeholder", "sample"}

FalsePositivePhone(phone, cleaned, originalLower) ==
    LET area == SubSeq(cleaned, 1, 3)
        exchange == SubSeq(cleaned, 4, 6)
        number == IF StartsWith(cleaned, "1") THEN SubSeq(cleaned, 2, Len(cleaned)) ELSE cleaned
        areaCode == SubSeq(number, 1, 3)
        exchange2 == SubSeq(number, 4, 6)
    IN  \/ phone = ""
        \/ cleaned \in phoneFalsePositives
        \/ \E k \in 1..Len(phoneDatePatterns) : Test(phoneDatePatterns[k], cleaned)
        \/ Test(SequentialStart, cleaned)
        \/ HasRepeat(cleaned, 7)
        \/ /\ Len(cleaned) = 10
           /\ \/ area \in {"000", "001", "111", "911"}
              \/ (area = exchange /\ exchange = SubSeq(cleaned, 7, 10))
              \/ (area = "555" /\ exchange = "555")
        \/ \E word \in phonePlaceholderWords : Includes(originalLower, word)
        \/ /\ Len(cleaned) = 10 \/ (Len(cleaned) = 11 /\ StartsWith(cleaned, "1"))
           /\ Len(number) = 10
           /\ \/ areaCode \in {"000", "001", "111", "211", "311", "411", "511", "611", "711", "811", "911"}
              \/ StartsWith(areaCode, "0") \/ StartsWith(areaCode, "1")
              \/ EndsWith(areaCode, "11")
              \/ StartsWith(exchange2, "0") \/ StartsWith(exchange2, "1")
              \/ (exchange2 = "555" /\ SubSeq(number, 7, 8) = "01")
        \/ Len(cleaned) < 7 \/ Len(cleaned) > 15
        \/ /\ Includes(originalLower, "extension")
           /\ ~Test(Cat(<<StrI("ext"), Opt(Str(".")), Opt(Set(Space)), D(1, 5)>>), phone)

isPhoneFalsePositive(phone) == FalsePositivePhone(phone, DigitsOnly(phone), ToLower(phone))

(***************************************************************************)
(* WebScraper.extractPhoneNumbers                                          *)
(***************************************************************************)
PHONE_URL_PREFIX_REGEX ==
    Cat(<<BOL, AltStrI(<<"tel", "phone", "telephone", "callto">>), Str(":"), Opt(Str("/")), Opt(Str("/"))>>)

IsTel(url) == url # "" /\ Test(PHONE_URL_PREFIX_REGEX, url)

TelNumber(url) == Trim(ReplaceFirst(PHONE_URL_PREFIX_REGEX, url, ""))

ValidPhone(phone) == isValidPhoneNumber(cleanPhoneNumber(phone))

\* The numbers of the urls with a telephone prefix, before validation.
TelUrlNumbers(urls) == Map(SelectSeq(urls, IsTel), TelNumber)

phonesFromUrls(urls) == SelectSeq(TelUrlNumbers(urls), ValidPhone)

\* [+]?[\d\s\-\(\)\.ext]+ with and without the i flag.
TelChars == Digit \cup Space \cup {"-", "(", ")", ".", "e", "x", "t"}
TelRun == Cat(<<Opt(Str("+")), Plus(Set(TelChars))>>)
TelRunI == Cat(<<Opt(Str("+")), Plus(Set(CI(TelChars)))>>)

ItempropTelephone ==
    Cat(<<StrI("itemprop"), WS0, Str("="), WS0, Quote, StrI("telephone"), Quote,
          Star(Set(NotIn({">"}))), StrI("content"), WS0, Str("="), WS0, Quote, Plus(NotQuote), Quote>>)
JsonTelephone ==
    Cat(<<StrI("\"telephone\":"), WS0, Str("\""), Plus(Set(NotIn({"\""}))), Str("\"")>>)

telPatterns ==
    <<Cat(<<StrI("tel:"), TelRunI>>),
      Cat(<<StrI("href"), WS0, Str("="), WS0, Quote, WS0, StrI("tel:"), Star(NotQuote), Quote, Str(">")>>),
      JsonTelephone,
      ItempropTelephone>>

phoneSchemaPatterns ==
    <<JsonTelephone,
      Cat(<<StrI("\"phone\":"), WS0, Str("\""), Plus(Set(NotIn({"\""}))), Str("\"")>>),
      ItempropTelephone,
      Cat(<<StrI("data-phone"), WS0, Str("="), WS0, Quote, Plus(NotQuote), Quote>>)>>

PhoneAccepted(phone) == ValidPhone(phone) /\ ~isPhoneFalsePositive(phone)

\* The text pass (lines 740-748): the matches kept, trimmed.
PhoneMatches(text) == MatchesOfAll(phonePatterns, text)

PhonesFromText(text) == Map(SelectSeq(PhoneMatches(text), PhoneAccepted), Trim)

\* The passes over html (lines 751-803).
\* The candidates of the tel: and structured-data passes (lines 761-802).
MarkupPhones(html) ==
    Map(Groups(MatchesOfAll(telPatterns, html), Empty, TelRun, Empty), Trim)
    \o Map(Groups(MatchesOfAll(phoneSchemaPatterns, html),
                  Str("\""), Plus(Set(NotIn({"\""}))), Str("\"")), Trim)

PhonesFromHtml(html) ==
    SelectSeq(phonesFromUrls(extractUrlsFromHtml(html)), ValidPhone)
    \o SelectSeq(MarkupPhones(html), PhoneAccepted)

\* Lines 806-811: filter, format, sort, remove duplicates.
FilterPhones(found) ==
    Dedup(Sort(Map(SelectSeq(found, LAMBDA ph : ~isPhoneFalsePositive(ph)), formatPhoneNumber)))

PhoneCap(filtered) == Slice(filtered, 10)

PhoneSet(text, html) ==
    AddAll(AddAll(NewSet, PhonesFromText(text)), IF Truthy(html) THEN PhonesFromHtml(html.v) ELSE <<>>)

extractPhoneNumbers(text, html) ==
    IF text.type # "string" THEN Throw
    ELSE IF Truthy(html) /\ html.type # "string" THEN Throw
    ELSE Return(PhoneCap(FilterPhones(PhoneSet(text.v, html))))

(***************************************************************************)
(* WebScraper: names                                                       *)
(***************************************************************************)
\* Character classes of the name patterns, as written and under the i flag.
Up == Set(Upper)
Lo(lo, hi) == Rep(Set(Lower), lo, hi)
AnyL == Set(Letter)
AnyLs(lo, hi) == Rep(Set(Letter), lo, hi)
OptApos == Opt(Str("'"))

\* (?:\s+[A-Z]\.?\s*)? under the i flag
MiddleI == Opt(Cat(<<WS1, AnyL, Opt(Str(".")), WS0>>))

\* [A-Z][a-z]{1,15}(?:\s+[A-Z]\.?\s*)?[A-Z][a-z]{1,20} under the i flag
NameI == Cat(<<AnyL, AnyLs(1, 15), MiddleI, AnyL, AnyLs(1, 20)>>)

\* [A-Z][a-z]+'?(?:\s+[A-Z]\.?\s*)?[A-Z][a-z]+'?(?:\s+[A-Z][a-z]+'?)? under the i flag
TitledNameI ==
    Cat(<<AnyL, AnyLs(1, Inf), OptApos, MiddleI, AnyL, AnyLs(1, Inf), OptApos,
          Opt(Cat(<<WS1, AnyL, AnyLs(1, Inf), OptApos>>))>>)

Words2(a, b) == Cat(<<StrI(a), WS1, StrI(b)>>)
OptS(w) == Cat(<<StrI(w), Opt(StrI("s"))>>)
JobTitles(list) == AltStrI(list)

\* Each pattern as <<what precedes group 1, group 1, what follows it>>.
namePatterns ==
    <<<<Cat(<<Alt(<<Cat(<<StrI("Dr"), Opt(Str("."))>>), StrI("Doctor"),
                    Cat(<<StrI("Prof"), Opt(Str("."))>>), StrI("Professor"),
                    Cat(<<StrI("Mr"), Opt(Str("."))>>), Cat(<<StrI("Ms"), Opt(Str("."))>>),
                    Cat(<<StrI("Mrs"), Opt(Str("."))>>), StrI("Miss"), StrI("CEO"),
                    StrI("President"), StrI("Director"), StrI("Manager"), StrI("VP"),
                    Words2("Vice", "President")>>), WS1>>),
        TitledNameI, Empty>>,
      <<Cat(<<Alt(<<StrI("contact"),
                    Cat(<<StrI("reach"), Opt(Cat(<<WS1, StrI("out"), WS1, StrI("to")>>))>>),
                    Words2("speak", "with"), Words2("talk", "to"), StrI("meet"),
                    Words2("ask", "for"), StrI("call"), StrI("email")>>),
              WS1, Opt(Cat(<<StrI("us"), WS1, StrI("at"), WS1>>))>>),
        NameI, Empty>>,
      <<Cat(<<AltStrI(<<"about", "team", "staff", "meet", "our", "founder", "co-founder", "ceo",
                        "president", "owner", "director", "manager", "lead", "head", "senior",
                        "principal", "chief">>),
              Star(Set(Space \cup {":"}))>>),
        Cat(<<AnyL, AnyLs(1, 15), WS1, AnyL, AnyLs(1, 20)>>), Empty>>,
      <<Cat(<<Alt(<<StrI("by"), StrI("author"), Words2("written", "by"), Words2("created", "by"),
                    Words2("developed", "by")>>), Str(":"), WS0>>),
        NameI, Empty>>,
      <<Empty, NameI,
        Cat(<<Opt(Str(",")), WS1,
              Opt(Alt(<<Cat(<<StrI("is"), WS1, AltStrI(<<"our", "the", "a">>)>>),
                        Cat(<<OptS("work"), WS1, StrI("as")>>),
                        Cat(<<OptS("serve"), WS1, StrI("as")>>)>>)),
              WS0,
              JobTitles(<<"CEO", "President", "Director", "Manager", "Engineer", "Developer",
                          "Designer", "Consultant", "Specialist", "Coordinator", "Analyst",
                          "Associate">>)>>)>>,
      <<Cat(<<Alt(<<Cat(<<StrI("hello"), Opt(Str(",")), WS1, StrI("i"), OptApos, StrI("m")>>),
                    Cat(<<StrI("hi"), Opt(Str(",")), WS1, StrI("i"), OptApos, StrI("m")>>),
                    Cat(<<StrI("my"), WS1, StrI("name"), WS1, StrI("is")>>),
                    Cat(<<StrI("i"), OptApos, StrI("m")>>),
                    Words2("this", "is")>>), WS1>>),
        NameI, Empty>>,
      <<Cat(<<Str("\""), Lazy(Dot, 0, Inf), Str("\""), Opt(Str(",")), WS0,
              Alt(<<StrI("said"), StrI("says"), Words2("according", "to"), OptS("state")>>), WS1>>),
        NameI, Empty>>,
      <<Empty, NameI,
        Cat(<<WS0, Set({",", NL}), WS0,
              JobTitles(<<"CEO", "President", "Director", "Manager", "Partner", "Owner", "Founder">>)>>)>>,
      <<Cat(<<Alt(<<Cat(<<StrI("best"), WS1, StrI("regard"), Opt(StrI("s"))>>), StrI("sincerely"),
                    Words2("thank", "you")>>), Opt(Str(",")), WS0, Opt(Str(NL)), WS0>>),
        NameI, Empty>>,
      <<WB, Cat(<<Up, Lo(2, 12), WS1, Up, Lo(1, 12), WS1, Up, Lo(2, 15)>>), WB>>,
      <<WB, Cat(<<Up, Lo(2, 15), WS1, Opt(Cat(<<Up, Opt(Str(".")), WS1>>)), Up, Lo(2, 20),
                  Opt(Cat(<<WS1, Up, Lo(2, 20)>>))>>), WB>>>>

Whole(pat) == Cat(<<pat[1], pat[2], pat[3]>>)

\* The fallback of line 967 (no flags): group 1 is the whole match.
fallbackNamePattern ==
    Cat(<<Up, Lo(1, 15), Opt(Cat(<<WS1, Up, Opt(Str(".")), WS0>>)), Plus(Cat(<<WS1, Up, Lo(1, 20)>>))>>)

NameChars == Letter \cup Space \cup {".", "'", "-"}

ValidTrimmedName(trimmed, parts) ==
    /\ Len(trimmed) >= 3 /\ Len(trimmed) <= 50
    /\ Len(parts) >= 2
    /\ \A i \in 1..Len(parts) : Len(parts[i]) >= 2 /\ Len(parts[i]) <= 20
    /\ \A i \in 1..Len(trimmed) : SubSeq(trimmed, i, i) \in NameChars
    /\ SubSeq(trimmed, 1, 1) \in Upper
    /\ \A i \in 1..Len(parts) : Len(parts[i]) > 1 => SubSeq(parts[i], 1, 1) \in Upper

isValidName(name) == name # "" /\ ValidTrimmedName(Trim(name), SplitWS(Trim(name)))

nameFalsePositives ==
    {"john doe", "jane doe", "john smith", "jane smith", "lorem ipsum", "test user", "sample name",
     "your name", "first last", "fname lname", "firstname lastname", "user name", "full name",
     "company name", "business name", "admin user", "site admin", "web admin", "administrator",
     "default user", "guest user", "anonymous user", "example name", "sample person", "test person",
     "dummy name", "fake name", "placeholder name"}

\* placeholderWords, businessTerms, jobTitles, genericNames and techTerms:
\* a name that includes one of them is rejected.
nameRejectedTerms ==
    {"lorem", "ipsum", "example", "sample", "test", "dummy", "fake", "placeholder", "default",
     "company", "corporation", "business", "enterprise", "organization", "department", "division",
     "office", "branch", "headquarters", "customer service", "tech support", "sales team",
     "marketing team", "help desk", "information desk", "reception", "front desk", "about us",
     "contact us", "home page", "main page", "news events", "domain names", "abuse information",
     "protocols numbers", "root zone", "time zones", "root servers", "special use",
     "sales representative", "marketing manager", "account manager", "project manager",
     "general manager", "operations manager", "office manager", "contact person", "sales person",
     "support person", "your contact", "our representative", "team member", "staff member",
     "company representative", "api key", "user id", "client id", "session id", "auth token"}

\* /^(.+)\s+\1$/i
RepeatedWords(name) ==
    \E i \in 1..Len(name) : \E j \in (i + 1)..(Len(name) - 1) :
        /\ \A k \in 1..i : SubSeq(name, k, k) # NL
        /\ \A k \in (i + 1)..j : SubSeq(name, k, k) \in Space
        /\ ToLower(SubSeq(name, j + 1, Len(name))) = ToLower(SubSeq(name, 1, i))

nameSpecialChars ==
    {"!", "@", "#", "$", "%", "^", "&", "*", "(", ")", ",", ".", "?", "\"", ":", "{", "}", "|", "<", ">"}

nameSuspiciousPatterns ==
    <<Cat(<<BOL, AltStrI(<<"mr", "mrs", "ms", "dr", "prof">>), Opt(Str(".")), WS1,
            AltStrI(<<"example", "sample", "test">>)>>),
      Cat(<<BOL, AltStrI(<<"example", "sample", "test">>), WS1>>),
      Cat(<<BOL, AnyLs(1, 2), WS1, AnyLs(1, 2), EOL>>),
      Set(Digit),
      Set(nameSpecialChars),
      Cat(<<BOL, Plus(Up), WS1, Plus(Up), EOL>>)>>

FalsePositiveName(name, lowerName) ==
    \/ name = ""
    \/ lowerName \in nameFalsePositives
    \/ \E term \in nameRejectedTerms : Includes(lowerName, term)
    \/ \E k \in 1..Len(nameSuspiciousPatterns) : Test(nameSuspiciousPatterns[k], name)
    \/ RepeatedWords(name)

isNameFalsePositive(name) == FalsePositiveName(name, Trim(ToLower(name)))

Join(words, sep) ==
    Concat([i \in 1..Len(words) |-> IF i = 1 THEN words[i] ELSE sep \o words[i]])

\* word.charAt(0).toUpperCase() + word.slice(1).toLowerCase()
Capitalize(word) ==
    IF word = "" THEN "" ELSE ToUpper(SubSeq(word, 1, 1)) \o ToLower(SubSeq(word, 2, Len(word)))

FirstChar(m) == SubSeq(m, 1, 1)
LastChar(m) == SubSeq(m, Len(m), Len(m))

\* The rewriting steps of normalizeName and of the cleaning of a match:
\* <<pattern, what replaces the match m>>.
Rewrite(step, s) ==
    CASE step = "spaces" -> ReplaceAll(WS1, s, " ")
      [] step = "camelCase" ->
            ReplaceAllBy(Cat(<<Set(Lower), Up>>), s, LAMBDA m : FirstChar(m) \o " " \o LastChar(m))
      [] step = "initials" ->
            ReplaceAllBy(Cat(<<WB, Up, Opt(Str(".")), WS0, Up, WB>>), s,
                         LAMBDA m : FirstChar(m) \o ". " \o LastChar(m))
      [] step = "middleInitial" ->
            ReplaceAllBy(Cat(<<WB, Up, Plus(Set(Lower)), WS1, Up, WB>>), s,
                         LAMBDA m : Head(SplitWS(m)) \o " " \o LastChar(m) \o ".")
      [] step = "dottedInitials" ->
            ReplaceAllBy(Cat(<<Up, Str("."), WS0, Up>>), s, LAMBDA m : FirstChar(m) \o ". " \o LastChar(m))
      [] step = "afterComma" -> ReplaceFirst(Cat(<<Str(","), Star(Dot), EOL>>), s, "")

\* The first k steps applied to s, one after the other.
RECURSIVE RewriteAll(_, _, _)
RewriteAll(steps, k, s) == IF k = 0 THEN s ELSE Rewrite(steps[k], RewriteAll(steps, k - 1, s))

normalizeName(name) ==
    Join(Map(Split(RewriteAll(<<"spaces", "camelCase", "initials", "middleInitial">>, 4, Trim(name)), " "),
             Capitalize), " ")

(***************************************************************************)
(* IEEE-754 doubles of the confidence scores.  <<n, d>> is the double      *)
(* nearest to n/10 moved by d * 2^-56; every score is a sum of a few       *)
(* literals with one decimal, and FAddTable gives the rounded result of    *)
(* each addition (x, a/10) that a confidence function can perform.         *)
(***************************************************************************)
FAddTable ==
    {<<<<4, 0>>, 2, <<6, 8>>>>, <<<<4, 0>>, 3, <<7, 0>>>>, <<<<5, 0>>, -1, <<4, 0>>>>,
     <<<<5, 0>>, 1, <<6, 0>>>>, <<<<5, 0>>, 2, <<7, 0>>>>, <<<<5, 0>>, 3, <<8, 0>>>>,
     <<<<6, 0>>, 1, <<7, 0>>>>, <<<<6, 0>>, 2, <<8, 0>>>>, <<<<7, 0>>, -1, <<6, 0>>>>,
     <<<<7, 0>>, 1, <<8, -8>>>>, <<<<7, 0>>, 2, <<9, -8>>>>, <<<<8, -8>>, 1, <<9, -8>>>>,
     <<<<8, -8>>, 2, <<10, 0>>>>, <<<<8, 0>>, 1, <<9, 0>>>>, <<<<8, 0>>, 2, <<10, 0>>>>,
     <<<<9, -8>>, -1, <<8, -8>>>>, <<<<9, -8>>, 1, <<10, -8>>>>, <<<<9, -8>>, 2, <<11, -16>>>>,
     <<<<9, 0>>, 2, <<11, 0>>>>, <<<<10, 0>>, 1, <<11, 0>>>>, <<<<10, 0>>, 2, <<12, 0>>>>,
     <<<<11, 0>>, 2, <<13, 0>>>>}

\* x + a/10, or x when the condition guarding the addition is false.
FAdd(x, cond, a) == IF cond THEN (CHOOSE t \in FAddTable : t[1] = x /\ t[2] = a)[3] ELSE x

Tenths(n) == <<n, 0>>
FLess(x, y) == x[1] < y[1] \/ (x[1] = y[1] /\ x[2] < y[2])
FMin(x, y) == IF FLess(y, x) THEN y ELSE x
FMax(x, y) == IF FLess(x, y) THEN y ELSE x

(***************************************************************************)
(* WebScraper: names found in text and in html                             *)
(***************************************************************************)
\* Lines 973-976: trim, single spaces, "X.Y" -> "X. Y", cut at a comma.
CleanNameMatch(nameMatch) ==
    RewriteAll(<<"spaces", "dottedInitials", "afterComma">>, 3, Trim(nameMatch))

\* Lines 959-970: pattern.exec(match) from lastIndex 0, group 1; the fallback
\* pattern when exec finds nothing.
OrFallback(fullMatch, match) ==
    IF fullMatch # <<>> /\ fullMatch[1] # "" THEN fullMatch
    ELSE Capture(Empty, fallbackNamePattern, Empty, match)

NameOfMatch(pat, match) == OrFallback(Capture(pat[1], pat[2], pat[3], match), match)

NameAccepted(name) == isValidName(name) /\ ~isNameFalsePositive(name)

NamesOfPattern(pat, text) ==
    SelectSeq(Map(SelectSeq(Flatten(Map(MatchAll(Whole(pat), text), LAMBDA m : NameOfMatch(pat, m))),
                            LAMBDA n : n # ""),
                  CleanNameMatch),
              NameAccepted)

\* The text pass (lines 955-985).
NamesFromText(text) ==
    Flatten([k \in 1..Len(namePatterns) |-> NamesOfPattern(namePatterns[k], text)])

NotDQ == Set(NotIn({"\""}))
NotGt == Set(NotIn({">"}))
NotLt == Set(NotIn({"<"}))
NotBrace == Set(NotIn({"}"}))
JsonKey(key) == Cat(<<StrI("\"" \o key \o "\":"), WS0>>)
JsonStr == Cat(<<Str("\""), Plus(NotDQ), Str("\"")>>)
TypePerson == Cat(<<JsonKey("@type"), StrI("\"Person\"")>>)

schemaPatterns ==
    <<Cat(<<TypePerson, Star(NotBrace), JsonKey("name"), JsonStr>>),
      Cat(<<TypePerson, Star(NotBrace), JsonKey("givenName"), JsonStr, Star(NotBrace),
            JsonKey("familyName"), JsonStr>>),
      Cat(<<JsonKey("name"), Str("\""), AnyL, AnyLs(1, 15), WS1, AnyL, AnyLs(1, 20), Str("\"")>>)>>

\* /"([A-Z][^"]*[a-z])"/g
QuotedName == Cat(<<Str("\""), Up, Star(NotDQ), Set(Lower), Str("\"")>>)

extractNamesFromStructuredData(html) ==
    SelectSeq(Map(Flatten(Map(MatchesOfAll(schemaPatterns, html), LAMBDA m : MatchAll(QuotedName, m))),
                  LAMBDA m : Trim(ReplaceAll(Str("\""), m, ""))),
              isValidName)

MetaContent(attr, value, tail) ==
    Cat(<<StrI("<meta"), Plus(NotGt), StrI(attr \o "=\"" \o value \o "\""), Plus(NotGt),
          StrI("content=\""), Plus(NotDQ), Str("\""), tail>>)

metaPatterns ==
    <<MetaContent("name", "author", Empty),
      MetaContent("name", "creator", Empty),
      MetaContent("property", "article:author", Empty),
      MetaContent("property", "profile:first_name", Cat(<<Star(NotGt), Str(">")>>)),
      MetaContent("property", "profile:last_name", Cat(<<Star(NotGt), Str(">")>>))>>

extractNamesFromMetaTags(html) ==
    SelectSeq(Map(Groups(MatchesOfAll(metaPatterns, html), Str("content=\""), Plus(NotDQ), Str("\"")),
                  Trim), isValidName)

schemaOrgPattern ==
    Cat(<<StrI("itemtype=\""), Star(NotDQ), StrI("Person\""), Star(NotGt), Str(">"),
          Lazy(Set(Alphabet), 0, Inf), StrI("itemprop=\"name\""), Star(NotGt), Str(">"),
          Plus(NotLt), Str("<")>>)

extractNamesFromSchemaOrg(html) ==
    SelectSeq(Map(Groups(MatchAll(schemaOrgPattern, html),
                         Cat(<<Str("itemprop=\"name\""), Star(NotGt), Str(">")>>), Plus(NotLt), Str("<")),
                  Trim), isValidName)

TwoWordsI == Cat(<<AnyL, AnyLs(1, Inf), WS1, AnyL, AnyLs(1, Inf)>>)
TaggedWith(open, attr, words) ==
    Cat(<<open, Plus(NotGt), StrI(attr \o "=\""), Star(NotDQ), AltStrI(words), Star(NotDQ),
          Str("\""), Star(NotGt), Str(">"), TwoWordsI, Str("<")>>)

microdataPatterns ==
    <<TaggedWith(Str("<"), "class", <<"author", "name", "person", "contact">>),
      TaggedWith(Str("<"), "id", <<"author", "name", "person", "contact">>),
      TaggedWith(StrI("<span"), "class", <<"name">>)>>

extractNamesFromMicrodata(html) ==
    SelectSeq(Map(Groups(MatchesOfAll(microdataPatterns, html), Str(">"),
                         Cat(<<Up, Plus(Set(Lower)), WS1, Up, Plus(Set(Lower))>>), Str("<")),
                  Trim), isValidName)

socialPatterns ==
    <<Cat(<<StrI("linkedin.com/in/"), Plus(Set(Letter \cup {"-"}))>>),
      Cat(<<JsonKey("name"), JsonStr, Star(NotBrace), JsonKey("@type"), StrI("\"Person\"")>>),
      Cat(<<StrI("twitter.com/"), Plus(Set(WordChar))>>),
      Cat(<<JsonKey("name"), JsonStr, Star(NotBrace), StrI("twitter")>>)>>

extractNamesFromSocialProfiles(html) ==
    SelectSeq(Map(Groups(MatchesOfAll(socialPatterns, html), Str("\""), Plus(NotDQ), Str("\"")),
                  LAMBDA n : ReplaceAll(Set({"-", "_"}), n, " ")), isValidName)

\* The passes over html (lines 988-994), in the order of the calls.
NamesFromHtml(html) ==
    extractNamesFromStructuredData(html) \o extractNamesFromMetaTags(html)
    \o extractNamesFromSchemaOrg(html) \o extractNamesFromMicrodata(html)
    \o extractNamesFromSocialProfiles(html)

(***************************************************************************)
(* WebScraper: confidence scores                                           *)
(***************************************************************************)
AlphaDotAlphaAt == Cat(<<BOL, Plus(Set(Letter)), Str("."), Plus(Set(Letter)), Str("@")>>)

businessDomains == {"gmail.com", "outlook.com", "yahoo.com", "hotmail.com"}

\* email.split('@')[1], undefined when there is no '@'.
DomainOf(email) == LET parts == Split(email, "@") IN IF Len(parts) >= 2 THEN <<parts[2]>> ELSE <<>>

calculateEmailConfidence(email) ==
    LET domain == DomainOf(email)
        s1 == FAdd(Tenths(5), domain = <<>> \/ domain[1] \notin businessDomains, 2)
        s2 == FAdd(s1, Len(email) > 8 /\ Len(email) < 50, 1)
        s3 == FAdd(s2, Test(AlphaDotAlphaAt, email), 2)
        s4 == FAdd(s3, Test(Cat(<<BOL, AltStr(<<"info", "contact", "hello", "support">>), Str("@")>>), email), 1)
    IN  FMin(s4, Tenths(10))

UsFormat == Cat(<<Str("("), D(3, 3), Str(")"), Set(Space), D(3, 3), Str("-"), D(4, 4), EOL>>)

calculatePhoneConfidence(phone) ==
    LET s1 == FAdd(Tenths(5), Test(Cat(<<BOL, Str("+1"), Set(Space), UsFormat>>), phone), 3)
        s2 == FAdd(s1, Test(Cat(<<BOL, UsFormat>>), phone), 2)
        s3 == FAdd(s2, Test(Str("tel:"), phone), 1)
        s4 == FAdd(s3, Len(DigitsOnly(phone)) \in {10, 11}, 2)
    IN  FMin(s4, Tenths(10))

ProperPart(part) ==
    \/ Test(Cat(<<BOL, Up, Plus(Set(Lower)), EOL>>), part)
    \/ Test(Cat(<<BOL, Up, Str("."), EOL>>), part)

\* The score before Math.min (lines 1648-1662 of the definition in effect,
\* the second of the two calculateNameConfidence methods of the class).
ScoreOfParts(name, parts) ==
    LET s1 == FAdd(Tenths(5), Len(parts) >= 2, 2)
        s2 == FAdd(s1, Len(parts) >= 3, 1)
        s3 == FAdd(s2, Len(name) > 6 /\ Len(name) < 40, 1)
    IN  FAdd(s3, \A i \in 1..Len(parts) : ProperPart(parts[i]), 2)

NameScore(name) == ScoreOfParts(name, SplitWS(Trim(name)))

\* The sum of line 1664 without Math.min(confidence, 1.0).
calculateNameConfidence_noMin(name) == NameScore(name)

calculateNameConfidence(name) == FMin(NameScore(name), Tenths(10))

Completeness(parts) ==
    IF Len(parts) >= 3 THEN Tenths(10) ELSE IF Len(parts) = 2 THEN Tenths(8) ELSE Tenths(3)

assessNameCompleteness(name) == Completeness(SplitWS(Trim(name)))

(***************************************************************************)
(* DataProcessor: confidence scores                                        *)
(***************************************************************************)
personalDomains ==
    {"gmail.com", "yahoo.com", "hotmail.com", "outlook.com", "aol.com", "icloud.com", "me.com",
     "protonmail.com"}

DP_classifyEmailType(email) ==
    IF Test(Cat(<<BOL, AltStrI(<<"info", "contact", "sales", "support", "hello", "admin", "office",
                                 "marketing", "hr", "careers", "jobs", "press", "media">>), EOL>>),
            Split(email, "@")[1])
    THEN "business"
    ELSE IF Second(Split(email, "@")) \in personalDomains THEN "personal" ELSE "business"

TypeOfParts(parts) ==
    IF Len(parts) = 1 THEN "single"
    ELSE IF Len(parts) = 2 THEN "full"
    ELSE IF Len(parts) > 2 THEN "full_with_middle" ELSE "unknown"

DP_classifyNameType(name) == TypeOfParts(SelectSeq(Split(name, " "), LAMBDA part : Len(part) > 0))

Clamp(confidence) == FMin(Tenths(10), FMax(Tenths(1), confidence))

DP_calculateEmailConfidence(email, sourceUrl) ==
    LET c1 == FAdd(Tenths(5), DP_classifyEmailType(email) = "business", 2)
        c2 == FAdd(c1, Includes(ToLower(sourceUrl), "contact"), 2)
        c3 == FAdd(c2, Test(Cat(<<BOL, AltStr(<<"info", "contact", "support">>), Str("@")>>), email), -1)
    IN  Clamp(c3)

DP_calculatePhoneConfidence(phone, sourceUrl) ==
    LET c1 == FAdd(Tenths(5), Includes(ToLower(sourceUrl), "contact"), 3)
        c2 == FAdd(c1, Len(DigitsOnly(phone)) \in {10, 11}, 2)
    IN  Clamp(c2)

DP_calculateNameConfidence(name, sourceUrl) ==
    LET c1 == FAdd(Tenths(4), Test(AltStr(<<"about", "team", "staff", "contact">>), ToLower(sourceUrl)), 3)
        c2 == FAdd(c1, DP_classifyNameType(name) = "full", 2)
    IN  Clamp(c2)

(***************************************************************************)
(* WebScraper.extractNames: post-processing                                *)
(***************************************************************************)
\* String.prototype.localeCompare in the root collation: characters compare
\* first by primary weight (white space, then punctuation, then symbols,
\* then digits, then letters without regard to case); strings equal at that
\* level compare by case, lower before upper.
CollationOrder == Chars(" _-,;:!?.'\"()[]{}@*/\\&#%^+<=>|~$0123456789")

PrimaryWeight(c) ==
    IF c \in Letter THEN 100 + Code[LowerOf[c]]
    ELSE IF c = NL THEN 0
    ELSE CHOOSE k \in 1..Len(CollationOrder) : CollationOrder[k] = c

RECURSIVE PrimaryLess(_, _, _)
PrimaryLess(a, b, k) ==
    IF k > Len(a) THEN k <= Len(b)
    ELSE IF k > Len(b) THEN FALSE
    ELSE IF PrimaryWeight(a[k]) = PrimaryWeight(b[k]) THEN PrimaryLess(a, b, k + 1)
    ELSE PrimaryWeight(a[k]) < PrimaryWeight(b[k])

\* a.localeCompare(b) < 0
LocaleLess(a, b) ==
    LET ca == Chars(a)
        cb == Chars(b)
    IN  \/ PrimaryLess(ca, cb, 1)
        \/ /\ ~PrimaryLess(cb, ca, 1)
           /\ \E k \in 1..Len(a) : /\ ca[k] \in Lower /\ cb[k] \in Upper
                                   /\ \A j \in 1..(k - 1) : ca[j] = cb[j]

\* The comparator of lines 1002-1017: a sorts before b.
\* scoreA, scoreB: the confidences; partsA, partsB: the numbers of parts.
Before(a, b, scoreA, scoreB, partsA, partsB) ==
    IF scoreA # scoreB THEN FLess(scoreB, scoreA)
    ELSE IF partsA # partsB THEN partsB < partsA
    ELSE LocaleLess(a, b)

NameBefore(a, b) ==
    Before(a, b, calculateNameConfidence(a), calculateNameConfidence(b),
           Len(Split(a, " ")), Len(Split(b, " ")))

\* Lines 997-1017.
FilterNames(found) ==
    LET normal == Map(found, normalizeName)
        valid == SelectSeq(normal, LAMBDA n : n # "" /\ isValidName(n))
        real == SelectSeq(valid, LAMBDA n : ~isNameFalsePositive(n))
    IN  SortBy(Dedup(real), NameBefore)

NameCap(sorted) == Slice(sorted, 8)

NameSet(text, html) ==
    AddAll(AddAll(NewSet, NamesFromText(text)), IF Truthy(html) THEN NamesFromHtml(html.v) ELSE <<>>)

extractNames(text, html) ==
    IF text.type # "string" THEN Throw
    ELSE IF Truthy(html) /\ html.type # "string" THEN Throw
    ELSE Return(NameCap(FilterNames(NameSet(text.v, html))))

(***************************************************************************)
(* WebScraper.processScrapedData                                           *)
(***************************************************************************)
\* Lines 236-244: without html content there is no priority text, and the
\* general text is textContent || ''.
extractTargetedContent(textContent) ==
    [priorityText |-> "", generalText |-> IF Truthy(textContent) THEN textContent.v ELSE ""]

\* Records as validateExtractedData builds them: value, confidence, completeness.
Scored(list, Conf(_), Complete(_)) ==
    [i \in 1..Len(list) |-> [value |-> list[i], confidence |-> Conf(list[i]), complete |-> Complete(list[i])]]

\* sort((a, b) => b.confidence - a.confidence), and for names
\* b.completeness - a.completeness when the confidences are equal.
RecordBefore(a, b) ==
    IF a.confidence # b.confidence THEN FLess(b.confidence, a.confidence)
    ELSE FLess(b.complete, a.complete)

\* The values of the first n records in that order.
Top(records, n) == Map(Slice(SortBy(records, RecordBefore), n), LAMBDA r : r.value)

validateExtractedData(data) ==
    [called |-> TRUE, threw |-> FALSE,
     emails |-> Top(Scored(SelectSeq(SelectSeq(data.emails, isValidEmail), LAMBDA e : ~isEmailFalsePositive(e)),
                           calculateEmailConfidence, LAMBDA e : Tenths(0)), 10),
     phones |-> Top(Scored(SelectSeq(data.phones, LAMBDA ph : ~isPhoneFalsePositive(ph)),
                           calculatePhoneConfidence, LAMBDA ph : Tenths(0)), 6),
     names |-> Top(Scored(SelectSeq(SelectSeq(data.names, isValidName), LAMBDA n : ~isNameFalsePositive(n)),
                          calculateNameConfidence, assessNameCompleteness), 5)]

\* `${rawData.title} ${targetedContent.priorityText} ${targetedContent.generalText}`
Combined(title, targetedContent) ==
    title \o " " \o targetedContent.priorityText \o " " \o targetedContent.generalText

combinedText(page) == Combined(page.title, extractTargetedContent(page.textContent))

\* Lines 196-231 under the default configuration (the three extract* flags
\* are set), for a page without html content.
ExtractAll(text, html) ==
    [emails |-> extractEmails(text, html).value,
     phones |-> extractPhoneNumbers(text, html).value,
     names |-> extractNames(text, html).value]

processScrapedData(page) ==
    validateExtractedData(ExtractAll(JsString(combinedText(page)), page.content))

NotProcessed == [called |-> FALSE, threw |-> FALSE, emails |-> <<>>, phones |-> <<>>, names |-> <<>>]

(***************************************************************************)
(* The pages the scraper is given                                          *)
(***************************************************************************)
\* A generated text is made of at most MaxFrags fragments.
MaxFrags == 2

Fragments == <<"alice@acme.org", "ALICE@ACME.ORG", "+44 20 7946 0958", "+44-20-7946-0958">>

GeneratedTexts ==
    {Join([i \in 1..Len(f) |-> Fragments[f[i]]], " ") :
        f \in UNION {[1..k -> 1..Len(Fragments)] : k \in 1..MaxFrags}}

SixteenEmails ==
    "abe@acme.org bea@acme.org cal@acme.org dan@acme.org eve@acme.org fay@acme.org "
    \o "gus@acme.org hal@acme.org ian@acme.org joy@acme.org kim@acme.org lee@acme.org "
    \o "max@acme.org ned@acme.org pam@acme.org zoe.young@acme.org"

ElevenPhones ==
    "+44 20 7946 0951 +44 20 7946 0952 +44 20 7946 0953 +44 20 7946 0954 +44 20 7946 0955 "
    \o "+44 20 7946 0956 +44 20 7946 0957 +44 20 7946 0958 +44 20 7946 0959 +44 20 7946 0960 "
    \o "+44 20 7946 0961"

NineNames ==
    "Anna Bell, Carl Dorn, Eve Fox, Gus Hale, Ian Jung, Kim Lane, Max Nash, Olaf Penn, Quin Rose"

ContactText == "Contact John Smith at john.smith@company.com or call (555) 123-4567."
DuplicateText == "a@b.com A@B.COM a@b.com A@B.COM"
DuplicateValid == "alice@acme.org ALICE@ACME.ORG alice@acme.org ALICE@ACME.ORG"
InvoiceText == "Invoice date: 2023-11-10"
Overfull == SixteenEmails \o " " \o ElevenPhones \o " " \o NineNames
NumberAndName == "+44 20 7946 0958 Ada Lovelace"

WrittenTexts ==
    {ContactText, DuplicateText, DuplicateValid, InvoiceText, "due 11/10/2023 or 2023/11/10",
     "867-5309 or 867.5309", "bob [at] acme [dot] org, Dr. Robert Johnson and Mary Anne Watson",
     "Ada Lovelace Ada Lovelace", SixteenEmails, ElevenPhones, NineNames, Overfull, NumberAndName, ""}

\* Html with an address in a mailto link, in a data attribute, in a script
\* string and in structured data, telephone numbers and names in markup.
ContactHtml ==
    "<a href=\"mailto:joe@firm.org?subject=hi\">mail</a> <i data-email=\"x.y@firm.org\"></i> "
    \o "<a href=\"mailto:test@example.com\">t</a> <a href=\"tel:+1-415-234-5678\">call</a> "
    \o "<script>var m = 'sue@firm.org'; {\"email\": \"info@firm.org\", \"telephone\": \"+49 30 901820\"}"
    \o "</script> <meta name=\"author\" content=\"Edsger Dijkstra\"><span class=\"name\">Donald Knuth</span>"

\* Html whose telephone links hold dates.
DatedHtml ==
    "<a href=\"tel:11/10/2023\">a</a> <a href=\"tel:2023/11/10\">b</a> <a href=\"tel:2023-11-10\">c</a>"

\* Html made of one mailto link per target, each as in
\* <a href="mailto:info@firm.org">Email us</a>.
MailtoLink(target) == "<a href=\"mailto:" \o target \o "\">Email us</a>"

MailtoHtml(targets) == Join([i \in 1..Len(targets) |-> MailtoLink(targets[i])], " ")

MailtoTargets ==
    {<<"info@firm.org">>,
     <<"Sales@Firm.org?subject=Hi", "test@example.com", "nobody", "joe@firm.org?cc=sue@firm.org">>,
     Split(SixteenEmails, " ")}

Page(text, html) == [title |-> "Acme", textContent |-> text, content |-> html]

\* Pages without text whose html holds mailto links and nothing else.
MailtoPage(targets) == Page(JsString(""), JsString(MailtoHtml(targets)))

\* One address, joe@firm.org, written in text with each obfuscation marker.
ObfuscatedTexts ==
    {"Write to joe[at]firm[dot]org today", "Write to joe(at)firm(dot)org today",
     "Write to joe at firm dot org today", "Write to joe&#64;firm&#46;org today",
     "Write to joe&at;firm&dot;org today", "Write to joe [at] firm [dot] org today"}

Pages ==
    {Page(JsString(t), JsString("")) : t \in GeneratedTexts \cup WrittenTexts}
    \cup {Page(JsString(t), JsString(ContactHtml)) : t \in {"", "alice@acme.org", InvoiceText}}
    \cup {Page(JsString(InvoiceText), JsString(DatedHtml))}
    \cup {MailtoPage(targets) : targets \in MailtoTargets}
    \cup {Page(JsString(t), JsString("")) : t \in ObfuscatedTexts}
    \cup {Page(t, JsString("")) : t \in {JsUndefined, JsNull, JsNumber}}

\* The outcome of each extractor on each page, computed once.
EmailTable == {<<p, extractEmails(p.textContent, p.content)>> : p \in Pages}
PhoneTable == {<<p, extractPhoneNumbers(p.textContent, p.content)>> : p \in Pages}
NameTable == {<<p, extractNames(p.textContent, p.content)>> : p \in Pages}
ResultTable == {<<p, processScrapedData(p)>> : p \in {q \in Pages : ~Truthy(q.content)}}

Lookup(table, p) == (CHOOSE e \in table : e[1] = p)[2]

NoScore == [by |-> "none", value |-> "", sourceUrl |-> "", confidence |-> Tenths(0)]

\* The options of the constructor that crawlWebsite reads, at their defaults
\* (EnhancedWebScraper.js lines 28-32).
DefaultOptions == [maxDepth |-> 3, maxPages |-> 50, respectRobots |-> TRUE, followExternalLinks |-> FALSE]

\* What the site answers to GET /robots.txt: a file, or an error.
RobotsTxt(data) == [found |-> TRUE, data |-> data]
NoRobotsTxt == [found |-> FALSE, data |-> ""]

\* The instance after construction (lines 49-54), with the options it was
\* given and the robots.txt of the site it will crawl.
\* The BrowserMonitor after construction (lines 25-29): null is "", polls are
\* the invocations of checkActiveWindow in flight, emitted the events so far.
NewBrowserMonitor ==
    [isMonitoring |-> FALSE, lastUrl |-> "", monitoringInterval |-> FALSE, visitedUrls |-> {},
     polls |-> <<>>, emitted |-> <<>>]

\* The DatabaseManager once initialize() has created the tables, in a process
\* whose local time is zone half hours ahead of UTC: now is the time in half
\* hours, contacts the rows of the table, calls the invocations of
\* storeContactData in flight, returned what the last one returned.
NothingStored == [url |-> "", id |-> 0, inserted |-> FALSE]

NewDatabaseManager(zone) ==
    [zone |-> zone, now |-> 0, lastID |-> 0, contacts |-> <<>>, calls |-> <<>>, returned |-> NothingStored]

\* updateUIState: the two buttons and the status text follow isScrapingActive.
updateUIState(state) ==
    [state EXCEPT !.startDisabled = state.isScrapingActive,
                  !.stopDisabled = ~state.isScrapingActive,
                  !.statusText = IF state.isScrapingActive THEN "Actively scraping..." ELSE "Ready to start"]

\* The DataScraperUI once loadInitialData has read the scraping status of the
\* main process (active) and called updateUIState; calls are the invocations
\* of startScraping and stopScraping that await their reply, toast the last
\* toast shown.
NewDataScraperUI(active) ==
    updateUIState([isScrapingActive |-> active, startDisabled |-> FALSE, stopDisabled |-> FALSE,
                   statusText |-> "", toast |-> "", calls |-> <<>>])

\* The main process once its window is created (part_002 lines 13-15):
\* dataScraper is null (FALSE) or a DataScraper, handlers are the invocations
\* of the before-quit and window-all-closed handlers in flight, quitPrevented
\* tells that a quit was asked for and cancelled, phase is "quit" once the
\* application has quit.
NewMain(platform) ==
    [platform |-> platform, dataScraper |-> FALSE, isScrapingActive |-> FALSE, windowOpen |-> TRUE,
     handlers |-> <<>>, quitPrevented |-> FALSE, phase |-> "running"]

\* What crawlWebsite returned, if it did.
NotReturned == [success |-> FALSE, emails |-> <<>>, phones |-> <<>>, names |-> <<>>]

NewCrawler(options, robotsTxt) ==
    [phase |-> "idle",
     options |-> options,
     robotsTxt |-> robotsTxt,
     robotsCache |-> {},
     visitedUrls |-> <<>>,
     foundContacts |-> <<>>,
     returned |-> NotReturned,
     results |-> [crawledPages |-> 0, errors |-> <<>>],
     stack |-> <<>>]

(***************************************************************************)
(* The scraper at work on one page after another                           *)
(***************************************************************************)
Init ==
    /\ rawData \in Pages
    /\ emails = NotCalled
    /\ phones = NotCalled
    /\ names = NotCalled
    /\ result = NotProcessed
    /\ scored = NoScore
    /\ memo = <<>>
    /\ crawler = NewCrawler(DefaultOptions, NoRobotsTxt)
    /\ monitor = NewBrowserMonitor
    /\ db = NewDatabaseManager(0)
    /\ ui = NewDataScraperUI(FALSE)
    /\ main = NewMain("win32")

\* The next page arrives.
Receive(p) ==
    /\ rawData' = p
    /\ emails' = NotCalled
    /\ phones' = NotCalled
    /\ names' = NotCalled
    /\ result' = NotProcessed
    /\ UNCHANGED <<monitor, db, ui, main, crawler, scored, memo>>

ExtractEmails ==
    /\ emails' = Lookup(EmailTable, rawData)
    /\ UNCHANGED <<monitor, db, ui, main, crawler, rawData, phones, names, result, scored, memo>>

ExtractPhoneNumbers ==
    /\ phones' = Lookup(PhoneTable, rawData)
    /\ UNCHANGED <<monitor, db, ui, main, crawler, rawData, emails, names, result, scored, memo>>

ExtractNames ==
    /\ names' = Lookup(NameTable, rawData)
    /\ UNCHANGED <<monitor, db, ui, main, crawler, rawData, emails, phones, result, scored, memo>>

ProcessScrapedData ==
    /\ ~Truthy(rawData.content)
    /\ result' = Lookup(ResultTable, rawData)
    /\ UNCHANGED <<monitor, db, ui, main, crawler, rawData, emails, phones, names, scored, memo>>

Next ==
    \/ \E p \in Pages : Receive(p)
    \/ ExtractEmails
    \/ ExtractPhoneNumbers
    \/ ExtractNames
    \/ ProcessScrapedData

Spec == Init /\ [][Next]_vars

(***************************************************************************)
(* Confidence scoring of single records                                    *)
(***************************************************************************)
ConfEmails ==
    {"info@acme.org", "contact@gmail.com", "support@yahoo.com", "hello@firm.org", "sales@acme.org",
     "john.roe@gmail.com", "zoe.young@acme.org", "abe@acme.org", "joe@aol.com", "jo@me.com",
     "a@b.co", "noatsign"}

ConfPhones ==
    {"+1 (415) 234-5678", "(415) 234-5678", "tel:4152345678", "tel:+44 20 7946", "+44 20 7946 0958",
     "867-5309", "14152345678", "4152345678"}

ConfNames ==
    {"Mary Anne Watson", "John A. Smith", "Ada Lovelace", "Madonna", "Jean-Luc Picard", "ada lovelace",
     "Al Xu", "Anna Maria Luisa de la Cruz y Fernandez de Cordoba", "John Smith", "Mary Anne Jane Watson",
     "Al", "Alan", "Bartholomew Maximilian Featherstone"}

SourceUrls == {"https://acme.org/contact", "https://acme.org/about-us", "https://acme.org/"}

Score(by, value, sourceUrl, confidence) ==
    [by |-> by, value |-> value, sourceUrl |-> sourceUrl, confidence |-> confidence]

ConfInit ==
    /\ rawData = Page(JsString(""), JsString(""))
    /\ emails = NotCalled
    /\ phones = NotCalled
    /\ names = NotCalled
    /\ result = NotProcessed
    /\ scored = NoScore
    /\ memo = <<>>
    /\ crawler = NewCrawler(DefaultOptions, NoRobotsTxt)
    /\ monitor = NewBrowserMonitor
    /\ db = NewDatabaseManager(0)
    /\ ui = NewDataScraperUI(FALSE)
    /\ main = NewMain("win32")

ScoreEmail(email) ==
    /\ scored' = Score("WebScraper.calculateEmailConfidence", email, "", calculateEmailConfidence(email))
    /\ UNCHANGED <<monitor, db, ui, main, crawler, rawData, emails, phones, names, result, memo>>

ScorePhone(phone) ==
    /\ scored' = Score("WebScraper.calculatePhoneConfidence", phone, "", calculatePhoneConfidence(phone))
    /\ UNCHANGED <<monitor, db, ui, main, crawler, rawData, emails, phones, names, result, memo>>

ScoreName(name) ==
    /\ scored' = Score("WebScraper.calculateNameConfidence", name, "", calculateNameConfidence(name))
    /\ UNCHANGED <<monitor, db, ui, main, crawler, rawData, emails, phones, names, result, memo>>

ProcessEmail(email, sourceUrl) ==
    /\ scored' = Score("DataProcessor.calculateEmailConfidence", email, sourceUrl,
                       DP_calculateEmailConfidence(email, sourceUrl))
    /\ UNCHANGED <<monitor, db, ui, main, crawler, rawData, emails, phones, names, result, memo>>

ProcessPhone(phone, sourceUrl) ==
    /\ scored' = Score("DataProcessor.calculatePhoneConfidence", phone, sourceUrl,
                       DP_calculatePhoneConfidence(phone, sourceUrl))
    /\ UNCHANGED <<monitor, db, ui, main, crawler, rawData, emails, phones, names, result, memo>>

ProcessName(name, sourceUrl) ==
    /\ scored' = Score("DataProcessor.calculateNameConfidence", name, sourceUrl,
                       DP_calculateNameConfidence(name, sourceUrl))
    /\ UNCHANGED <<monitor, db, ui, main, crawler, rawData, emails, phones, names, result, memo>>

ConfNext ==
    \/ \E e \in ConfEmails : ScoreEmail(e)
    \/ \E ph \in ConfPhones : ScorePhone(ph)
    \/ \E n \in ConfNames : ScoreName(n)
    \/ \E e \in ConfEmails, u \in SourceUrls : ProcessEmail(e, u)
    \/ \E ph \in ConfPhones, u \in SourceUrls : ProcessPhone(ph, u)
    \/ \E n \in ConfNames, u \in SourceUrls : ProcessName(n, u)

SpecConf == ConfInit /\ [][ConfNext]_vars

(***************************************************************************)
(* One scraper instance called again and again                             *)
(***************************************************************************)
\* The calls recorded in memo are at most MaxCalls.
MaxCalls == 3

AgainPages ==
    {Page(JsString("alice@acme.org"), JsString("")),
     Page(JsString(NumberAndName), JsString(""))}

Called(op, out) == [op |-> op, args |-> rawData, out |-> out]

AgainInit ==
    /\ rawData \in AgainPages
    /\ emails = NotCalled
    /\ phones = NotCalled
    /\ names = NotCalled
    /\ result = NotProcessed
    /\ scored = NoScore
    /\ memo = <<>>
    /\ crawler = NewCrawler(DefaultOptions, NoRobotsTxt)
    /\ monitor = NewBrowserMonitor
    /\ db = NewDatabaseManager(0)
    /\ ui = NewDataScraperUI(FALSE)
    /\ main = NewMain("win32")

\* Other arguments are at hand; the instance and what it returned last stay.
Hand(p) ==
    /\ rawData' = p
    /\ UNCHANGED <<monitor, db, ui, main, crawler, emails, phones, names, result, scored, memo>>

\* extractEmails with its Set kept on the instance from call to call: what
\* the last call returned is still in it.
CallExtractEmails_keptSet ==
    /\ Len(memo) < MaxCalls
    /\ emails' = Return(EmailCap(FilterEmails(AddAll(emails.value, Lookup(EmailTable, rawData).value))))
    /\ memo' = Append(memo, Called("extractEmails", emails'))
    /\ UNCHANGED <<monitor, db, ui, main, crawler, rawData, phones, names, result, scored>>

CallExtractEmails ==
    /\ Len(memo) < MaxCalls
    /\ emails' = Lookup(EmailTable, rawData)
    /\ memo' = Append(memo, Called("extractEmails", emails'))
    /\ UNCHANGED <<monitor, db, ui, main, crawler, rawData, phones, names, result, scored>>

CallExtractPhoneNumbers ==
    /\ Len(memo) < MaxCalls
    /\ phones' = Lookup(PhoneTable, rawData)
    /\ memo' = Append(memo, Called("extractPhoneNumbers", phones'))
    /\ UNCHANGED <<monitor, db, ui, main, crawler, rawData, emails, names, result, scored>>

CallExtractNames ==
    /\ Len(memo) < MaxCalls
    /\ names' = Lookup(NameTable, rawData)
    /\ memo' = Append(memo, Called("extractNames", names'))
    /\ UNCHANGED <<monitor, db, ui, main, crawler, rawData, emails, phones, result, scored>>

AgainNext ==
    \/ \E p \in AgainPages : Hand(p)
    \/ CallExtractEmails
    \/ CallExtractPhoneNumbers
    \/ CallExtractNames

SpecAgain == AgainInit /\ [][AgainNext]_vars

(***************************************************************************)
(* DataProcessor: processEmails and deduplicateData                        *)
(***************************************************************************)
\* cleanEmail; null, which it returns for an empty argument, is "" here: the
\* caller only tests the outcome with !cleanEmail.
DP_cleanEmail(email) ==
    IF email = "" THEN ""
    ELSE ReplaceAll(WS1, ReplaceFirst(Cat(<<BOL, StrI("mailto:")>>),
                                      ReplaceAll(Set({"<", ">", "'", "\""}), Trim(ToLower(email)), ""), ""), "")

AlNum == Set(Letter \cup Digit)
DomainLabel == Cat(<<AlNum, Opt(Cat(<<Rep(Set(Letter \cup Digit \cup {"-"}), 0, 61), AlNum>>))>>)

DP_emailRegex ==
    Cat(<<BOL,
          Plus(Set(Letter \cup Digit \cup {".", "!", "#", "$", "%", "&", "'", "*", "+", "/", "=", "?", "^",
                                           "_", "{", "|", "}", "~", "-"})),
          Str("@"), DomainLabel, Star(Cat(<<Str("."), DomainLabel>>)), EOL>>)

DP_isValidEmail(email) == Test(DP_emailRegex, email)

spamPatterns ==
    <<StrI("noreply"), StrI("no-reply"), StrI("donotreply"), StrI("automated"), StrI("system@"),
      StrI("bounce@"), StrI("newsletter@")>>

DP_isSpamEmail(email) == \E k \in 1..Len(spamPatterns) : Test(spamPatterns[k], email)

placeholders == {"example@example.com", "test@test.com", "user@domain.com", "email@domain.com"}

DP_isPlaceholderEmail(email) ==
    \/ email \in placeholders
    \/ Includes(email, "placeholder")
    \/ Includes(email, "yoursite")
    \/ Includes(email, "yourdomain")

DP_extractEmailDomain(email) == Second(Split(email, "@"))

\* The record pushed for an address (lines 75-82), its time stamp left out.
processedEmail(cleanEmail, sourceUrl) ==
    [email |-> cleanEmail,
     domain |-> DP_extractEmailDomain(cleanEmail),
     type |-> DP_classifyEmailType(cleanEmail),
     confidence |-> DP_calculateEmailConfidence(cleanEmail, sourceUrl),
     source |-> sourceUrl]

\* The three tests of the loop body after cleaning (lines 64-73).
Skipped(config, cleanEmail, seenEmails) ==
    \/ cleanEmail = "" \/ cleanEmail \in seenEmails
    \/ config.enableValidation /\ ~DP_isValidEmail(cleanEmail)
    \/ DP_isSpamEmail(cleanEmail) \/ DP_isPlaceholderEmail(cleanEmail)

\* for (const email of emails), from the k-th on.
RECURSIVE ProcessedFrom(_, _, _, _, _, _)
ProcessedFrom(config, rawEmails, sourceUrl, k, processed, seenEmails) ==
    IF k > Len(rawEmails) THEN processed
    ELSE IF Skipped(config, DP_cleanEmail(rawEmails[k]), seenEmails)
         THEN ProcessedFrom(config, rawEmails, sourceUrl, k + 1, processed, seenEmails)
    ELSE ProcessedFrom(config, rawEmails, sourceUrl, k + 1,
                       Append(processed, processedEmail(DP_cleanEmail(rawEmails[k]), sourceUrl)),
                       seenEmails \cup {DP_cleanEmail(rawEmails[k])})

\* (a, b) => b.confidence - a.confidence is negative
HigherConfidence(a, b) == FLess(b.confidence, a.confidence)

DP_processEmails(config, rawEmails, sourceUrl) ==
    SortBy(ProcessedFrom(config, rawEmails, sourceUrl, 1, <<>>, {}), HigherConfidence)

\* filter(obj => { if (seen.has(key)) return false; seen.add(key); return true })
\* for the keys of the records: a record stays when no record before it has
\* its key.
FirstOfKey(keys) == SelectSeq([i \in 1..Len(keys) |-> i], LAMBDA i : \A j \in 1..(i - 1) : keys[j] # keys[i])

KeepFirsts(records, keys) == [k \in 1..Len(FirstOfKey(keys)) |-> records[FirstOfKey(keys)[k]]]

\* The key of deduplicateNames without replace(/\s+/g, ' ').trim().
NameKey_lowerCaseOnly(nameObj) == ToLower(nameObj.name)

EmailKey(emailObj) == ToLower(emailObj.email)
PhoneKey(phoneObj) == DigitsOnly(phoneObj.phone)
NameKey(nameObj) == Trim(ReplaceAll(WS1, ToLower(nameObj.name), " "))

DP_deduplicateEmails(emailObjs) == KeepFirsts(emailObjs, Map(emailObjs, EmailKey))
DP_deduplicatePhones(phoneObjs) == KeepFirsts(phoneObjs, Map(phoneObjs, PhoneKey))
DP_deduplicateNames(nameObjs) == KeepFirsts(nameObjs, Map(nameObjs, NameKey))

DP_deduplicateData(data) ==
    [data EXCEPT !.emails = DP_deduplicateEmails(data.emails),
                 !.phones = DP_deduplicatePhones(data.phones),
                 !.names = DP_deduplicateNames(data.names)]

(***************************************************************************)
(* EnhancedWebScraper: extractEmails and validateExtractedData             *)
(***************************************************************************)
E_emailPattern ==
    Cat(<<WB,
          Plus(Set(Letter \cup Digit \cup {".", "!", "#", "$", "%", "&", "'", "*", "+", "/", "=", "?", "^",
                                           "_", "{", "|", "}", "~", "-"})),
          Str("@"), DomainLabel, Star(Cat(<<Str("."), DomainLabel>>)), WB>>)

E_emailFalsePositives ==
    <<StrI("@example."), StrI("@test."), StrI("@localhost"), StrI("noreply@"), StrI("no-reply@"),
      StrI("donotreply@"), StrI("@domain."), StrI("@your-domain."),
      Cat(<<Str("."), AltStrI(<<"png", "jpg", "jpeg", "gif", "pdf", "doc", "docx", "zip", "rar">>), EOL>>)>>

E_isEmailFalsePositive(email) == \E k \in 1..Len(E_emailFalsePositives) : Test(E_emailFalsePositives[k], email)

DateSep == Set({"-", "/", "."})

E_phoneFalsePositives ==
    <<Cat(<<BOL, D(4, 4), DateSep, D(2, 2), DateSep, D(2, 2), EOL>>),
      Cat(<<BOL, D(2, 2), DateSep, D(2, 2), DateSep, D(4, 4), EOL>>),
      Cat(<<BOL, D(1, Inf), Str("."), D(1, Inf), EOL>>),
      Cat(<<BOL, D(1, Inf), Str(":"), D(1, Inf), EOL>>),
      Cat(<<WB, AltStrI(<<"zip", "postal", "code", "id", "ssn", "ein", "account", "routing", "tracking",
                          "order", "invoice">>), WB>>)>>

E_isPhoneFalsePositive(phone) == \E k \in 1..Len(E_phoneFalsePositives) : Test(E_phoneFalsePositives[k], phone)

E_nameFalsePositives ==
    <<Cat(<<WB, AltStrI(<<"click", "here", "more", "info", "contact", "about", "home", "page", "site",
                          "website", "email", "phone", "address", "location", "map", "directions", "hours",
                          "open", "closed", "monday", "tuesday", "wednesday", "thursday", "friday",
                          "saturday", "sunday", "january", "february", "march", "april", "may", "june",
                          "july", "august", "september", "october", "november", "december">>), WB>>),
      D(2, Inf),
      Set(NotIn(WordChar \cup Space \cup Range("'", "."))),
      Cat(<<BOL, AltStrI(<<"Mr", "Mrs", "Ms", "Dr", "Prof", "Inc", "LLC", "Ltd", "Corp", "Company",
                           "Business", "Service", "Services", "Group", "Team", "Staff", "Department",
                           "Office", "Center", "Centre">>), EOL>>)>>

E_isNameFalsePositive(name) == \E k \in 1..Len(E_nameFalsePositives) : Test(E_nameFalsePositives[k], name)

\* cheerio.load(html) and $('a[href^="mailto:"]'), for html whose anchors are
\* written <a href="...">: the href of each anchor that starts with mailto:.
AnchorOpen == Cat(<<StrI("<a"), WS1, StrI("href"), WS0, Str("="), WS0, Quote>>)

MailtoAnchors(html) ==
    SelectSeq(Groups(MatchAll(Cat(<<AnchorOpen, Star(NotQuote), Quote>>), html), AnchorOpen, Star(NotQuote), Quote),
              LAMBDA href : StartsWith(href, "mailto:"))

\* href.replace(/^mailto:/i, '').split('?')[0]
E_MailtoAddress(href) == Split(ReplaceFirst(EMAIL_URL_PREFIX_REGEX, href, ""), "?")[1]

E_Kept(found) == [i \in 1..Len(found) |-> ToLower(found[i])]

E_extractEmails(text, html) ==
    LET textMatches == SelectSeq(MatchAll(E_emailPattern, text), LAMBDA email : ~E_isEmailFalsePositive(email))
        linked == SelectSeq(Map(MailtoAnchors(html), E_MailtoAddress),
                            LAMBDA email : email # "" /\ ~E_isEmailFalsePositive(email))
    IN  Slice(AddAll(AddAll(<<>>, E_Kept(textMatches)), E_Kept(linked)), 10)

E_validateExtractedData(data) ==
    [emails |-> SelectSeq(data.emails, LAMBDA email : ~E_isEmailFalsePositive(email)),
     phones |-> SelectSeq(data.phones, LAMBDA phone : ~E_isPhoneFalsePositive(phone)),
     names |-> SelectSeq(data.names, LAMBDA name : ~E_isNameFalsePositive(name))]

(***************************************************************************)
(* EnhancedWebScraper: extractPhoneNumbers, extractNames, processScrapedData *)
(***************************************************************************)
PhoneSep == Opt(Set({"-", "."} \cup Space))

E_phonePatterns ==
    <<Cat(<<Opt(Str("+")), Opt(Str("1")), PhoneSep, Opt(Str("(")), D(3, 3), Opt(Str(")")), PhoneSep,
            D(3, 3), PhoneSep, D(4, 4), WB>>),
      Cat(<<Opt(Str("+")), Set(Digit \ {"0"}), D(0, 3), PhoneSep, Opt(Str("(")), D(1, 4), Opt(Str(")")),
            PhoneSep, D(1, 4), PhoneSep, D(1, 9), WB>>),
      Cat(<<WB, D(3, 3), Opt(Set({"-", "."})), D(3, 3), Opt(Set({"-", "."})), D(4, 4), WB>>),
      Cat(<<WB, Opt(Str("(")), D(3, 3), Opt(Str(")")), PhoneSep, D(3, 3), PhoneSep, D(4, 4), WB>>)>>

E_cleanPhoneNumber(phone) == ReplaceAll(Set(NotIn(Digit \cup {"+"})), phone, "")

E_isValidPhoneNumber(cleaned) ==
    /\ Len(cleaned) >= 7 /\ Len(cleaned) <= 15
    /\ Test(Cat(<<BOL, Opt(Str("+")), Plus(Set(Digit \cup Space \cup {"-", "(", ")"})), EOL>>), cleaned)

\* extractUrls: the href of every anchor, for html whose anchors are written
\* <a href="...">.
E_extractUrls(html) ==
    Groups(MatchAll(Cat(<<AnchorOpen, Star(NotQuote), Quote>>), html), AnchorOpen, Star(NotQuote), Quote)

E_extractPhonesFromUrls(urls) ==
    SelectSeq(Map(SelectSeq(urls, LAMBDA url : StartsWith(url, "tel:")),
                  LAMBDA url : Trim(SubSeq(url, 5, Len(url)))),
              LAMBDA phone : E_isValidPhoneNumber(E_cleanPhoneNumber(phone)))

\* The matches of the patterns, one pattern after the other.
RECURSIVE E_PatternMatches(_, _, _)
E_PatternMatches(patterns, k, text) ==
    IF k > Len(patterns) THEN <<>>
    ELSE MatchAll(patterns[k], text) \o E_PatternMatches(patterns, k + 1, text)

E_extractPhoneNumbers(text, html) ==
    LET matches == E_PatternMatches(E_phonePatterns, 1, text)
        kept == SelectSeq(matches, LAMBDA phone :
                    E_isValidPhoneNumber(E_cleanPhoneNumber(phone)) /\ ~E_isPhoneFalsePositive(phone))
        telPhones == IF html # "" THEN E_extractPhonesFromUrls(E_extractUrls(html)) ELSE <<>>
    IN  Slice(AddAll(AddAll(NewSet, Map(kept, Trim)), telPhones), 6)

NameWord == Cat(<<Set(Upper), Rep(Set(Lower), 1, 15)>>)
Surname == Cat(<<Set(Upper), Plus(Set(Lower))>>)
Titled(title) == Cat(<<WB, title, Opt(Str(".")), WS1, Surname, WS1, Surname, WB>>)

E_namePatterns ==
    <<Cat(<<WB, NameWord, WS1, NameWord, Opt(Cat(<<WS1, NameWord>>)), WB>>),
      Titled(Str("Dr")), Titled(Str("Mr")), Titled(Cat(<<Str("Mr"), Opt(Str("s"))>>))>>

E_isValidName(name) ==
    /\ Len(name) >= 2 /\ Len(name) <= 50
    /\ LET words == SplitWS(Trim(name))
       IN  /\ Len(words) >= 2 /\ Len(words) <= 4
           /\ \A i \in 1..Len(words) :
                  \/ Test(Cat(<<BOL, Set(Letter), Plus(Set(Letter)), EOL>>), words[i])
                  \/ Test(Cat(<<BOL, AltStrI(<<"Dr", "Mr", "Mrs", "Ms">>), Opt(Str(".")), EOL>>), words[i])

E_extractNames(text) ==
    LET clean == Map(E_PatternMatches(E_namePatterns, 1, text), Trim)
    IN  Slice(AddAll(NewSet, SelectSeq(clean, LAMBDA name : E_isValidName(name) /\ ~E_isNameFalsePositive(name))), 5)

\* processScrapedData with the default configuration, for rawData that
\* scrapeDynamic or scrapeStatic returned with success.
E_processScrapedData(raw) ==
    LET joined == raw.text \o " " \o raw.content
        extracted == [emails |-> E_extractEmails(joined, raw.content),
                      phones |-> E_extractPhoneNumbers(joined, raw.content),
                      names |-> E_extractNames(joined)]
        validated == E_validateExtractedData(extracted)
    IN  [success |-> TRUE, url |-> raw.url, emails |-> validated.emails, phones |-> validated.phones,
         names |-> validated.names, links |-> raw.links]

\* aggregateContacts: the three sets, in the order of insertion.
RECURSIVE Gathered(_, _, _)
Gathered(foundContacts, k, field) ==
    IF k > Len(foundContacts) THEN NewSet
    ELSE LET rest == Gathered(foundContacts, k + 1, field)
         IN  IF foundContacts[k].pageData.success
             THEN AddAll(AddAll(NewSet, foundContacts[k].pageData[field]), rest)
             ELSE rest

E_aggregateContacts(foundContacts) ==
    [emails |-> Gathered(foundContacts, 1, "emails"),
     phones |-> Gathered(foundContacts, 1, "phones"),
     names |-> Gathered(foundContacts, 1, "names")]

(***************************************************************************)
(* EnhancedWebScraper: robots.txt and links                                *)
(***************************************************************************)
\* s.split(sep) for a separator string.
RECURSIVE SplitOnFrom(_, _, _, _)
SplitOnFrom(s, sep, from, k) ==
    IF k + Len(sep) - 1 > Len(s) THEN <<SubSeq(s, from, Len(s))>>
    ELSE IF SubSeq(s, k, k + Len(sep) - 1) = sep
         THEN <<SubSeq(s, from, k - 1)>> \o SplitOnFrom(s, sep, k + Len(sep), k + Len(sep))
    ELSE SplitOnFrom(s, sep, from, k + 1)

SplitOn(s, sep) == SplitOnFrom(s, sep, 1, 1)

\* s.replace(prefix, '') for s that starts with prefix.
DropPrefix(s, prefix) == SubSeq(s, Len(prefix) + 1, Len(s))

\* parseInt(s) || 0 for s without a sign: the number its leading digits
\* write, 0 when it has none (NaN).
RECURSIVE ParseIntFrom(_, _, _)
ParseIntFrom(s, k, n) ==
    IF k > Len(s) \/ SubSeq(s, k, k) \notin Digit THEN n
    ELSE ParseIntFrom(s, k + 1, 10 * n + (Code[SubSeq(s, k, k)] - 48))

ParseInt(s) == ParseIntFrom(Trim(s), 1, 0)

\* The body of for (const line of lines), lines 549-567.
RobotsLine(line, rules) ==
    LET trimmed == ToLower(Trim(line))
        userAgentMatch ==
            IF StartsWith(trimmed, "user-agent:")
            THEN Includes(Trim(DropPrefix(trimmed, "user-agent:")), "*")
            ELSE rules.userAgentMatch
        path == Trim(DropPrefix(trimmed, "disallow:"))
    IN  [disallowedPaths |->
             IF userAgentMatch /\ StartsWith(trimmed, "disallow:") /\ path # ""
             THEN Append(rules.disallowedPaths, path) ELSE rules.disallowedPaths,
         crawlDelay |->
             IF userAgentMatch /\ StartsWith(trimmed, "crawl-delay:")
             THEN ParseInt(DropPrefix(trimmed, "crawl-delay:")) * 1000 ELSE rules.crawlDelay,
         userAgentMatch |-> userAgentMatch]

RECURSIVE RobotsFrom(_, _, _)
RobotsFrom(lines, k, rules) ==
    IF k > Len(lines) THEN [disallowedPaths |-> rules.disallowedPaths, crawlDelay |-> rules.crawlDelay]
    ELSE RobotsFrom(lines, k + 1, RobotsLine(lines[k], rules))

\* content.split('\\n'): the separator is a backslash followed by n.
E_parseRobotsTxt(content) ==
    RobotsFrom(SplitOn(content, "\\n"), 1, [disallowedPaths |-> <<>>, crawlDelay |-> 0, userAgentMatch |-> FALSE])

allowAllRules == [disallowedPaths |-> <<>>, crawlDelay |-> 0]

\* new URL(url) for url written scheme://host/path: hostname and pathname.
Hostname(url) == Split(url, "/")[3]

Pathname(url) ==
    IF Len(Split(url, "/")) <= 3 THEN "/"
    ELSE Concat([i \in 1..(Len(Split(url, "/")) - 3) |-> "/" \o Split(url, "/")[i + 3]])

IsHttpUrl(url) ==
    /\ Len(Split(url, "/")) >= 3
    /\ Split(url, "/")[1] \in {"http:", "https:"}
    /\ Split(url, "/")[2] = ""
    /\ Split(url, "/")[3] # ""

\* extractDomain: the hostname, the argument itself when new URL throws.
E_extractDomain(url) == IF IsHttpUrl(url) THEN Hostname(url) ELSE url

\* isAllowedByRobots with the entry robotsCache holds for the domain, if any.
E_isAllowedByRobots(robotsCache, url) ==
    \A entry \in robotsCache :
        entry[1] = E_extractDomain(url) =>
            ~\E k \in 1..Len(entry[2].disallowedPaths) : StartsWith(Pathname(url), entry[2].disallowedPaths[k])

documentTypes == <<"pdf", "doc", "docx", "xls", "xlsx", "ppt", "pptx", "zip", "rar", "exe", "dmg">>
imageTypes == <<"jpg", "jpeg", "png", "gif", "webp", "svg", "ico">>
mediaTypes == <<"mp3", "wav", "mp4", "avi", "mov", "webm">>

\* /\\.(pdf|...)$/i: a backslash, any character, one of the types.
E_skipPatterns ==
    <<Cat(<<Str("\\"), Dot, AltStrI(documentTypes), EOL>>),
      Cat(<<Str("\\"), Dot, AltStrI(imageTypes), EOL>>),
      Cat(<<Str("\\"), Dot, AltStrI(mediaTypes), EOL>>),
      StrI("javascript:"), StrI("mailto:"), StrI("tel:"), StrI("ftp:")>>

E_shouldSkipUrl(url) == \E k \in 1..Len(E_skipPatterns) : Test(E_skipPatterns[k], url)

nonContentPatterns ==
    {"/admin", "/login", "/register", "/logout", "/signin", "/signup", "/cart", "/checkout", "/account",
     "/profile", "/settings", "/search", "/404", "/500", "/error", "/privacy", "/terms", "/legal",
     "/cookies", "/feed", "/rss", "/xml", "/json", "#", "?utm_", "?ref=", "?src="}

E_isContentUrl(url) == ~\E pattern \in nonContentPatterns : Includes(ToLower(url), pattern)

\* extractInternalLinks for links whose href is absolute (resolveUrl returns
\* it as it is).
E_extractInternalLinks(links, baseUrl, followExternal) ==
    Dedup(SelectSeq(links, LAMBDA url :
        /\ ~E_shouldSkipUrl(url)
        /\ (E_extractDomain(url) = E_extractDomain(baseUrl) \/ followExternal)
        /\ E_isContentUrl(url)))

(***************************************************************************)
(* EnhancedWebScraper.crawlWebsite on one site                             *)
(***************************************************************************)
StartUrl == "https://acme.org/"

\* The pages of the site and the hrefs of their links.
Site ==
    {<<"https://acme.org/",
       <<"https://acme.org/about", "https://acme.org/private/staff", "https://other.org/",
         "https://acme.org/login", "mailto:info@acme.org">>>>,
     <<"https://acme.org/about",
       <<"https://acme.org/", "https://acme.org/team", "https://acme.org/private/board">>>>,
     <<"https://acme.org/team", <<>>>>,
     <<"https://acme.org/private/staff", <<"https://acme.org/private/board", "https://acme.org/about">>>>,
     <<"https://acme.org/private/board", <<>>>>,
     <<"https://other.org/", <<"https://acme.org/team">>>>}

\* The text of each page; none has markup that holds contacts.
SiteText ==
    {<<"https://acme.org/", "Acme Corp. Call (415) 234-5678 or ask Ada Lovelace.">>,
     <<"https://acme.org/about", "Phone 415-234-5678. Our lead is Ada" \o NL \o "Lovelace, with Grace Hopper.">>,
     <<"https://acme.org/team", "Grace Hopper: 415.234.5678, hopper@acme.org">>,
     <<"https://acme.org/private/staff", "Alan Turing +1 415 234 5678">>,
     <<"https://acme.org/private/board", "Chair: Ada Lovelace">>,
     <<"https://other.org/", "Other Org">>}

\* A robots.txt of one record per user agent, one line per field.
RobotsRecord(agent, disallow) == [agent |-> agent, disallow |-> disallow]

RobotsFileText(records) ==
    Join([i \in 1..Len(records) |->
             Join(<<"User-agent: " \o records[i].agent>>
                  \o [k \in 1..Len(records[i].disallow) |-> "Disallow: " \o records[i].disallow[k]], NL)], NL \o NL)

RobotsFiles ==
    {<<RobotsRecord("*", <<"/private">>)>>,
     <<RobotsRecord("Googlebot", <<"/about">>), RobotsRecord("*", <<"/private/", "/team">>)>>,
     <<RobotsRecord("*", <<>>)>>}

\* A file of one line, in which a backslash and n stand where lines end.
OneLineRobotsTxt == "User-agent: *\\nDisallow: /private/board\\nCrawl-delay: 2"

ServedRobotsTxt == {RobotsFileText(records) : records \in RobotsFiles} \cup {OneLineRobotsTxt}

CrawlOptions ==
    {[maxDepth |-> depth, maxPages |-> pages, respectRobots |-> robots, followExternalLinks |-> FALSE] :
        depth \in {1, 3}, pages \in {2, 50}, robots \in BOOLEAN}

\* What the functions of the crawl return for the site, computed once.
RobotsRulesTable == {<<data, E_parseRobotsTxt(data)>> : data \in ServedRobotsTxt}
InternalLinksTable == {<<page[1], E_extractInternalLinks(page[2], page[1], FALSE)>> : page \in Site}
PageDataTable ==
    {<<page[1], E_processScrapedData([url |-> page[1], text |-> Lookup(SiteText, page[1]), content |-> "",
                                      links |-> page[2]])>> : page \in Site}
AllowedTable ==
    {<<<<cache, page[1]>>, E_isAllowedByRobots(cache, page[1])>> :
        cache \in {{}, {<<E_extractDomain(StartUrl), allowAllRules>>}}
                  \cup {{<<E_extractDomain(StartUrl), rules[2]>>} : rules \in RobotsRulesTable},
        page \in Site}

CrawlInit ==
    /\ rawData = Page(JsString(""), JsString(""))
    /\ emails = NotCalled
    /\ phones = NotCalled
    /\ names = NotCalled
    /\ result = NotProcessed
    /\ scored = NoScore
    /\ memo = <<>>
    /\ crawler \in {NewCrawler(options, robotsTxt) :
                        options \in CrawlOptions,
                        robotsTxt \in {RobotsTxt(data) : data \in ServedRobotsTxt} \cup {NoRobotsTxt}}
    /\ monitor = NewBrowserMonitor
    /\ db = NewDatabaseManager(0)
    /\ ui = NewDataScraperUI(FALSE)
    /\ main = NewMain("win32")

\* loadRobotsTxt(domain): the cache after it.
LoadedRobots(robotsCache, domain, robotsTxt) ==
    IF \E entry \in robotsCache : entry[1] = domain THEN robotsCache
    ELSE IF robotsTxt.found THEN robotsCache \cup {<<domain, Lookup(RobotsRulesTable, robotsTxt.data)>>}
    ELSE robotsCache \cup {<<domain, allowAllRules>>}

\* One invocation of crawlUrl that is still to be made for each of links, at
\* the given depth.
Frame(links, depth) == [links |-> links, depth |-> depth]

\* The invocations still to be made once those with nothing left returned.
RECURSIVE Unwind(_)
Unwind(stack) ==
    IF stack # <<>> /\ Last(stack).links = <<>> THEN Unwind(SubSeq(stack, 1, Len(stack) - 1)) ELSE stack

\* crawlWebsite up to its call of crawlUrl(startUrl, 0, ...), lines 125-147.
CrawlWebsite(startUrl) ==
    /\ crawler.phase = "idle"
    /\ crawler' =
           [crawler EXCEPT
               !.phase = "crawling",
               !.visitedUrls = <<>>,
               !.foundContacts = <<>>,
               !.robotsCache =
                   IF crawler.options.respectRobots
                   THEN LoadedRobots(crawler.robotsCache, E_extractDomain(startUrl), crawler.robotsTxt)
                   ELSE crawler.robotsCache,
               !.results = [crawledPages |-> 0, errors |-> <<>>],
               !.stack = <<Frame(<<startUrl>>, 0)>>]
    /\ UNCHANGED <<monitor, db, ui, main, rawData, emails, phones, names, result, scored, memo>>

\* The tests at the head of crawlUrl without the one for a visited URL.
Returns_noVisitedTest(url, depth) ==
    \/ depth > crawler.options.maxDepth \/ crawler.results.crawledPages >= crawler.options.maxPages
    \/ crawler.options.respectRobots /\ ~Lookup(AllowedTable, <<crawler.robotsCache, url>>)

\* The tests at the head of crawlUrl, lines 183-197.
Returns(url, depth) ==
    \/ depth > crawler.options.maxDepth \/ crawler.results.crawledPages >= crawler.options.maxPages
    \/ \E k \in 1..Len(crawler.visitedUrls) : crawler.visitedUrls[k].url = url
    \/ crawler.options.respectRobots /\ ~Lookup(AllowedTable, <<crawler.robotsCache, url>>)

\* The stack with the next invocation taken from its top frame.
Taken == [crawler.stack EXCEPT ![Len(crawler.stack)].links = Tail(@)]

\* crawlUrl(url, depth, ...) returns at once.
SkipUrl ==
    /\ crawler.phase = "crawling" /\ crawler.stack # <<>>
    /\ Returns(Head(Last(crawler.stack).links), Last(crawler.stack).depth)
    /\ crawler' = [crawler EXCEPT !.stack = Unwind(Taken)]
    /\ UNCHANGED <<monitor, db, ui, main, rawData, emails, phones, names, result, scored, memo>>

\* crawlUrl(url, depth, ...) scrapes url, with or without success (lines
\* 199-237), and is about to call itself for the links of the page.
CrawlUrl(success) ==
    /\ crawler.phase = "crawling" /\ crawler.stack # <<>>
    /\ ~Returns(Head(Last(crawler.stack).links), Last(crawler.stack).depth)
    /\ LET url == Head(Last(crawler.stack).links)
            depth == Last(crawler.stack).depth
       IN  crawler' =
               [crawler EXCEPT
                   !.visitedUrls = Append(@, [url |-> url, depth |-> depth]),
                   !.foundContacts =
                       IF success THEN Append(@, [url |-> url, pageData |-> Lookup(PageDataTable, url)]) ELSE @,
                   !.results = IF success THEN [@ EXCEPT !.crawledPages = @ + 1]
                               ELSE [@ EXCEPT !.errors = Append(@, url)],
                   !.stack = IF success
                             THEN Unwind(Append(Taken, Frame(Lookup(InternalLinksTable, url), depth + 1)))
                             ELSE Unwind(Taken)]
    /\ UNCHANGED <<monitor, db, ui, main, rawData, emails, phones, names, result, scored, memo>>

\* crawlUrl(startUrl, ...) has returned: crawlWebsite returns (lines 149-166).
ReturnCrawl ==
    /\ crawler.phase = "crawling" /\ crawler.stack = <<>>
    /\ crawler' =
           [crawler EXCEPT
               !.phase = "returned",
               !.returned = [success |-> TRUE,
                             emails |-> E_aggregateContacts(crawler.foundContacts).emails,
                             phones |-> E_aggregateContacts(crawler.foundContacts).phones,
                             names |-> E_aggregateContacts(crawler.foundContacts).names]]
    /\ UNCHANGED <<monitor, db, ui, main, rawData, emails, phones, names, result, scored, memo>>

CrawlNext ==
    \/ CrawlWebsite(StartUrl)
    \/ SkipUrl
    \/ \E success \in BOOLEAN : CrawlUrl(success)
    \/ ReturnCrawl

SpecCrawl == CrawlInit /\ [][CrawlNext]_vars

(***************************************************************************)
(* Functions applied to a value and then to what they returned             *)
(***************************************************************************)
\* The calls recorded in memo are at most MaxApplied.
MaxApplied == 2

PhoneInputs ==
    {"4152345678", "(415) 234-5678", "415-234-5678", "415.234.5678", " 415 234 5678 ",
     "14152345678", "1-415-234-5678", "+14152345678", "+1 (415) 234-5678", "+4152345678",
     "(015) 234-5678", "(115) 234-5678", "(415) 034-5678", "(415) 134-5678", "1-015-234-5678",
     "1 (415) 134-5678", "24152345678", "+44 20 7946 0958", "442079460958", "867-5309",
     "+123456789", "2023-11-10", "ext. 12"}

ObfuscatedInputs ==
    {"bob [at] acme [dot] org", "bob(@)acme(.)org", "bob @ acme . org", " bob@acme.org ",
     "BOB [AT] ACME [DOT] ORG", "bob [a t] acme [dot] org", "bob [ [at] ] acme.org", "((@))",
     "bob( @ )acme( . )org", "bob at acme dot org", "[at][dot]", ""}

\* The lists handed to DataProcessor hold at most MaxRecords entries.
MaxRecords == 2

Lists(S, n) == UNION {[1..k -> S] : k \in 0..n}

RawEmails ==
    {"Bob@Acme.org ", "mailto:bob@acme.org", "<sue@acme.org>", "noreply@acme.org", "user@domain.com",
     "not an email", ""}

ProcessEmailsArgs ==
    {[config |-> [enableValidation |-> validation], emails |-> list, sourceUrl |-> "https://acme.org/contact"] :
        validation \in BOOLEAN, list \in Lists(RawEmails, MaxRecords)}

PhoneRecord(phone, sourceUrl) ==
    [phone |-> phone, confidence |-> DP_calculatePhoneConfidence(phone, sourceUrl), source |-> sourceUrl]

NameRecord(name, sourceUrl) ==
    [name |-> name, confidence |-> DP_calculateNameConfidence(name, sourceUrl), source |-> sourceUrl]

EmailRecords ==
    {processedEmail("bob@acme.org", "https://acme.org/"), processedEmail("bob@acme.org", "https://acme.org/contact"),
     processedEmail("Bob@Acme.org", "https://acme.org/"), processedEmail("sue@acme.org", "https://acme.org/")}

PhoneRecords ==
    {PhoneRecord("(415) 234-5678", "https://acme.org/"), PhoneRecord("415-234-5678", "https://acme.org/contact"),
     PhoneRecord("415.234.5678", "https://acme.org/"), PhoneRecord("+44 20 7946 0958", "https://acme.org/")}

NameRecords ==
    {NameRecord("Ada Lovelace", "https://acme.org/"), NameRecord("ada  lovelace", "https://acme.org/team"),
     NameRecord("ADA LOVELACE", "https://acme.org/"), NameRecord("Alan Turing", "https://acme.org/")}

Data(emailObjs, phoneObjs, nameObjs) == [emails |-> emailObjs, phones |-> phoneObjs, names |-> nameObjs]

DataInputs ==
    {Data(list, <<>>, <<>>) : list \in Lists(EmailRecords, MaxRecords)}
    \cup {Data(<<>>, list, <<>>) : list \in Lists(PhoneRecords, MaxRecords)}
    \cup {Data(<<>>, <<>>, list) : list \in Lists(NameRecords, MaxRecords)}

RECURSIVE DataValues(_)
DataValues(k) ==
    IF k = 0 THEN DataInputs
    ELSE LET before == DataValues(k - 1)
         IN  before \cup {DP_deduplicateData(data) : data \in before}

ProcessEmailsTable == {<<args, DP_processEmails(args.config, args.emails, args.sourceUrl)>> : args \in ProcessEmailsArgs}
DeduplicateDataTable == {<<data, DP_deduplicateData(data)>> : data \in DataValues(MaxApplied - 1)}
CleanEmailTable == {<<email, DP_cleanEmail(email)>> : email \in RawEmails}

\* Texts and html handed to EnhancedWebScraper.extractEmails.
E_Documents ==
    {[text |-> "Write to bob@intranet or Alice@Acme.org, not to noreply@acme.org.", html |-> ""],
     [text |-> "", html |-> MailtoHtml(<<"nobody", "sales@acme.org?subject=Hi", "x@y@z.org", "joe@example.com">>)],
     [text |-> "sue@acme.org", html |-> MailtoHtml(<<"sue@acme.org", "?subject=Hi">>)],
     [text |-> SixteenEmails, html |-> ""],
     [text |-> "no address here", html |-> "<a href=\"https://acme.org/contact\">Contact</a>"]}

E_ExtractEmailsTable == {<<doc, E_extractEmails(doc.text, doc.html)>> : doc \in E_Documents}

ExtractedInputs ==
    {Data(<<"bob@intranet", "nobody", "x@example.com", "alice@acme.org">>,
          <<"2023-11-10", "+44 20 7946 0958", "order 4152345678">>,
          <<"Click Here", "Ada Lovelace", "Agent 47">>)}
    \cup {Data(e[2], <<>>, <<>>) : e \in E_ExtractEmailsTable}

E_ValidateExtractedDataTable == {<<data, E_validateExtractedData(data)>> : data \in ExtractedInputs}

\* What formatting and cleaning make of a number.
PhoneOutcomes(phone) == {formatPhoneNumber(phone), DP_formatPhone(phone), cleanPhoneNumber(phone)}

\* The values reached from the inputs by at most k applications.
RECURSIVE PhoneValues(_)
PhoneValues(k) ==
    IF k = 0 THEN PhoneInputs
    ELSE LET before == PhoneValues(k - 1)
         IN  before \cup UNION {PhoneOutcomes(phone) : phone \in before}

RECURSIVE ObfuscatedValues(_)
ObfuscatedValues(k) ==
    IF k = 0 THEN ObfuscatedInputs
    ELSE LET before == ObfuscatedValues(k - 1)
         IN  before \cup {cleanObfuscatedEmail(email) : email \in before}

\* The outcome of each function on each value, computed once.
FormatPhoneNumberTable == {<<phone, formatPhoneNumber(phone)>> : phone \in PhoneValues(MaxApplied - 1)}
FormatPhoneTable == {<<phone, DP_formatPhone(phone)>> : phone \in PhoneValues(MaxApplied - 1)}
CleanPhoneNumberTable == {<<phone, cleanPhoneNumber(phone)>> : phone \in PhoneValues(MaxApplied - 1)}
ClassifiedInputs ==
    PhoneInputs \cup {"1-800-555-0199", "(888) 555-0100", "+1 877 555 0100", "800", "+33 1 42 68 53 00", "+8005550199"}
ClassifyPhoneTypeTable ==
    {<<phone, classifyPhoneType(phone)>> : phone \in PhoneValues(MaxApplied - 1) \cup ClassifiedInputs}
\* Names as written on a page, among them those of the repository's
\* validation test.
WrittenNames ==
    {"John Smith", "Jane Doe", "Dr. Robert Johnson", "Lorem Ipsum", "Mary Jane Watson", "Test User",
     "Sarah O'Connor", "John A Smith", "mary j watson", "Prof. Ada Lovelace", "J. Smith", "Sales Team",
     "Ada", " Ada  Lovelace "}
NamesWritten(k) == IF k = 0 THEN WrittenNames ELSE WrittenNames \cup {normalizeName(name) : name \in WrittenNames}
NormalizeNameTable == {<<name, normalizeName(name)>> : name \in NamesWritten(MaxApplied - 2)}
IsValidNameTable == {<<name, isValidName(name)>> : name \in NamesWritten(MaxApplied - 1)}
IsNameFalsePositiveTable == {<<name, isNameFalsePositive(name)>> : name \in NamesWritten(MaxApplied - 1)}
IsValidPhoneNumberTable == {<<phone, isValidPhoneNumber(phone)>> : phone \in PhoneValues(MaxApplied - 1)}
CleanObfuscatedEmailTable ==
    {<<email, cleanObfuscatedEmail(email)>> : email \in ObfuscatedValues(MaxApplied - 1)}

Applied(op, arg, out) == [op |-> op, args |-> arg, out |-> out]

PhoneFunctions ==
    {"WebScraper.formatPhoneNumber", "DataProcessor.formatPhone", "WebScraper.cleanPhoneNumber"}

\* The values a function can be applied to: an input when nothing was called
\* yet, afterwards what the last call returned.
AtHand(inputs, functions) ==
    IF memo = <<>> THEN inputs
    ELSE IF Last(memo).op \in functions THEN {Last(memo).out}
    ELSE {}

ApplyInit ==
    /\ rawData = Page(JsString(""), JsString(""))
    /\ emails = NotCalled
    /\ phones = NotCalled
    /\ names = NotCalled
    /\ result = NotProcessed
    /\ scored = NoScore
    /\ memo = <<>>
    /\ crawler = NewCrawler(DefaultOptions, NoRobotsTxt)
    /\ monitor = NewBrowserMonitor
    /\ db = NewDatabaseManager(0)
    /\ ui = NewDataScraperUI(FALSE)
    /\ main = NewMain("win32")

Apply(op, table, arg) ==
    /\ Len(memo) < MaxApplied
    /\ memo' = Append(memo, Applied(op, arg, Lookup(table, arg)))
    /\ UNCHANGED <<monitor, db, ui, main, crawler, rawData, emails, phones, names, result, scored>>

FormatPhoneNumber(phone) == Apply("WebScraper.formatPhoneNumber", FormatPhoneNumberTable, phone)

FormatPhone(phone) == Apply("DataProcessor.formatPhone", FormatPhoneTable, phone)

CleanPhoneNumber(phone) == Apply("WebScraper.cleanPhoneNumber", CleanPhoneNumberTable, phone)

IsValidPhoneNumber(cleaned) == Apply("WebScraper.isValidPhoneNumber", IsValidPhoneNumberTable, cleaned)

CleanObfuscatedEmail(email) == Apply("WebScraper.cleanObfuscatedEmail", CleanObfuscatedEmailTable, email)

ClassifyPhoneType(phone) == Apply("WebScraper.classifyPhoneType", ClassifyPhoneTypeTable, phone)

\* normalizeName is applied to a name as written, the two tests to a name as
\* written or as normalizeName returned it.
NormalizeName(name) ==
    /\ memo = <<>>
    /\ Apply("WebScraper.normalizeName", NormalizeNameTable, name)

IsValidName(name) == Apply("WebScraper.isValidName", IsValidNameTable, name)

IsNameFalsePositive(name) == Apply("WebScraper.isNameFalsePositive", IsNameFalsePositiveTable, name)



ProcessEmails(args) == Apply("DataProcessor.processEmails", ProcessEmailsTable, args)

DeduplicateData(data) == Apply("DataProcessor.deduplicateData", DeduplicateDataTable, data)

E_ExtractEmails(doc) == Apply("EnhancedWebScraper.extractEmails", E_ExtractEmailsTable, doc)

\* validateExtractedData, for a result at hand or for the one whose emails the
\* last call of extractEmails returned (processScrapedData, lines 697-709).
E_ValidateExtractedData(data) ==
    Apply("EnhancedWebScraper.validateExtractedData", E_ValidateExtractedDataTable, data)

ExtractedAtHand ==
    IF memo = <<>> THEN ExtractedInputs
    ELSE IF Last(memo).op = "EnhancedWebScraper.extractEmails" THEN {Data(Last(memo).out, <<>>, <<>>)}
    ELSE {}

ApplyNext ==
    \/ \E doc \in AtHand(E_Documents, {}) : E_ExtractEmails(doc)
    \/ \E data \in ExtractedAtHand : E_ValidateExtractedData(data)
    \/ \E args \in AtHand(ProcessEmailsArgs, {}) : ProcessEmails(args)
    \/ \E data \in AtHand(DataInputs, {"DataProcessor.deduplicateData"}) : DeduplicateData(data)
    \/ \E phone \in AtHand(PhoneInputs, PhoneFunctions) : FormatPhoneNumber(phone)
    \/ \E phone \in AtHand(PhoneInputs, PhoneFunctions) : FormatPhone(phone)
    \/ \E phone \in AtHand(PhoneInputs, PhoneFunctions) : CleanPhoneNumber(phone)
    \/ \E cleaned \in AtHand(PhoneInputs, PhoneFunctions) : IsValidPhoneNumber(cleaned)
    \/ \E phone \in AtHand(ClassifiedInputs, PhoneFunctions) : ClassifyPhoneType(phone)
    \/ \E name \in WrittenNames : NormalizeName(name)
    \/ \E name \in AtHand(WrittenNames, {"WebScraper.normalizeName"}) : IsValidName(name)
    \/ \E name \in AtHand(WrittenNames, {"WebScraper.normalizeName"}) : IsNameFalsePositive(name)


    \/ \E email \in AtHand(ObfuscatedInputs, {"WebScraper.cleanObfuscatedEmail"}) : CleanObfuscatedEmail(email)

SpecApply == ApplyInit /\ [][ApplyNext]_vars

(***************************************************************************)
(* BrowserMonitor: start, stop and the polls of the active window          *)
(***************************************************************************)
\* At most MaxPolls invocations of checkActiveWindow are in flight, and the
\* events emitted are recorded up to MaxEmitted.
MaxPolls == 2
MaxEmitted == 4

\* What activeWin() resolves to: no window, the window of another program,
\* or a browser window showing a URL.
NoWindow == [browser |-> FALSE, url |-> ""]
BrowserAt(url) == [browser |-> TRUE, url |-> url]
BrowsedUrls == {"https://acme.org/", "https://acme.org/team"}
Windows == {NoWindow} \cup {BrowserAt(url) : url \in BrowsedUrls}

\* What extractUrlFromWindow resolves to for a window: its URL, or nothing.
UrlInfos(window) == {"", window.url}

Poll(pc, window) == [pc |-> pc, window |-> window]

Without(seq, i) == SubSeq(seq, 1, i - 1) \o SubSeq(seq, i + 1, Len(seq))

MonitorInit ==
    /\ rawData = Page(JsString(""), JsString(""))
    /\ emails = NotCalled
    /\ phones = NotCalled
    /\ names = NotCalled
    /\ result = NotProcessed
    /\ scored = NoScore
    /\ memo = <<>>
    /\ crawler = NewCrawler(DefaultOptions, NoRobotsTxt)
    /\ monitor = NewBrowserMonitor
    /\ db = NewDatabaseManager(0)
    /\ ui = NewDataScraperUI(FALSE)
    /\ main = NewMain("win32")

\* start(), when monitoring is not active; otherwise it throws.
MonitorStart ==
    /\ ~monitor.isMonitoring
    /\ Len(monitor.emitted) < MaxEmitted
    /\ monitor' = [monitor EXCEPT !.isMonitoring = TRUE,
                                  !.monitoringInterval = TRUE,
                                  !.emitted = Append(@, "monitoring-started")]
    /\ UNCHANGED <<db, ui, main, crawler, rawData, emails, phones, names, result, scored, memo>>

\* stop(), when monitoring is active; otherwise it returns at once.
MonitorStop ==
    /\ monitor.isMonitoring
    /\ Len(monitor.emitted) < MaxEmitted
    /\ monitor' = [monitor EXCEPT !.isMonitoring = FALSE,
                                  !.monitoringInterval = FALSE,
                                  !.emitted = Append(@, "monitoring-stopped")]
    /\ UNCHANGED <<db, ui, main, crawler, rawData, emails, phones, names, result, scored, memo>>

\* The interval fires: checkActiveWindow runs up to await activeWin().
CheckActiveWindow ==
    /\ monitor.monitoringInterval
    /\ Len(monitor.polls) < MaxPolls
    /\ monitor' = [monitor EXCEPT !.polls = Append(@, Poll("activeWin", NoWindow))]
    /\ UNCHANGED <<db, ui, main, crawler, rawData, emails, phones, names, result, scored, memo>>

\* activeWin() resolves for poll i: checkActiveWindow returns if the window
\* is no browser's, and awaits extractUrlFromWindow(window) otherwise.
ActiveWinReturns(i, window) ==
    /\ i \in 1..Len(monitor.polls)
    /\ monitor.polls[i].pc = "activeWin"
    /\ monitor' = [monitor EXCEPT !.polls = IF window.browser THEN [@ EXCEPT ![i] = Poll("extractUrl", window)]
                                            ELSE Without(@, i)]
    /\ UNCHANGED <<db, ui, main, crawler, rawData, emails, phones, names, result, scored, memo>>

\* extractUrlFromWindow resolves for poll i (lines 84-106); url is "" when it
\* found none.
ExtractUrlReturns(i, url) ==
    /\ i \in 1..Len(monitor.polls)
    /\ monitor.polls[i].pc = "extractUrl"
    /\ url \in UrlInfos(monitor.polls[i].window)
    /\ LET changed == url # "" /\ url # monitor.lastUrl
           new == changed /\ url \notin monitor.visitedUrls
       IN  /\ new => Len(monitor.emitted) < MaxEmitted
           /\ monitor' = [monitor EXCEPT !.polls = Without(@, i),
                                         !.lastUrl = IF changed THEN url ELSE @,
                                         !.visitedUrls = IF new THEN @ \cup {url} ELSE @,
                                         !.emitted = IF new THEN Append(@, "url-changed") ELSE @]
    /\ UNCHANGED <<db, ui, main, crawler, rawData, emails, phones, names, result, scored, memo>>

MonitorNext ==
    \/ MonitorStart
    \/ MonitorStop
    \/ CheckActiveWindow
    \/ \E i \in 1..MaxPolls, window \in Windows : ActiveWinReturns(i, window)
    \/ \E i \in 1..MaxPolls, url \in BrowsedUrls \cup {""} : ExtractUrlReturns(i, url)

SpecMonitor == MonitorInit /\ [][MonitorNext]_vars

(***************************************************************************)
(* DatabaseManager.storeContactData                                        *)
(***************************************************************************)
\* At most MaxStores invocations are in flight, the table holds at most
\* MaxRows rows and time runs to MaxNow half hours.
MaxStores == 2
MaxRows == 2
MaxNow == 3

\* An hour, in half hours.
Hour == 2

StoredUrls == {"https://acme.org/", "https://acme.org/team"}

\* The local time zones of the process, in half hours ahead of UTC.
Zones == {-2, 0, 2}

DbInit ==
    /\ rawData = Page(JsString(""), JsString(""))
    /\ emails = NotCalled
    /\ phones = NotCalled
    /\ names = NotCalled
    /\ result = NotProcessed
    /\ scored = NoScore
    /\ memo = <<>>
    /\ crawler = NewCrawler(DefaultOptions, NoRobotsTxt)
    /\ monitor = NewBrowserMonitor
    /\ db \in {NewDatabaseManager(zone) : zone \in Zones}
    /\ ui = NewDataScraperUI(FALSE)
    /\ main = NewMain("win32")

Row(id, url, created_at) == [id |-> id, url |-> url, created_at |-> created_at]

\* SELECT id, created_at FROM contacts WHERE url = ? ORDER BY created_at DESC
\* LIMIT 1: the rows one of which is the answer.
LatestRows(url) ==
    {k \in 1..Len(db.contacts) :
        /\ db.contacts[k].url = url
        /\ \A j \in 1..Len(db.contacts) :
               db.contacts[j].url = url => db.contacts[j].created_at <= db.contacts[k].created_at}

\* new Date(created_at): created_at is CURRENT_TIMESTAMP, the UTC time written
\* without a zone, which Date reads as local time.
DateOf(created_at) == created_at - db.zone

\* lastScrape > hourAgo, lines 155-158.
ScrapedWithinHour(row) == DateOf(row.created_at) > db.now - Hour

\* storeContactData(contactData) up to await this.dbGet(...).
StoreContactData(url) ==
    /\ Len(db.calls) < MaxStores
    /\ db' = [db EXCEPT !.calls = Append(@, [url |-> url, pc |-> "dbGet"])]
    /\ UNCHANGED <<monitor, ui, main, crawler, rawData, emails, phones, names, result, scored, memo>>

\* dbGet resolves for call i with a row scraped within the hour: the call
\* returns the id of the row.
SkipDuplicate(i, k) ==
    /\ i \in 1..Len(db.calls)
    /\ db.calls[i].pc = "dbGet"
    /\ k \in LatestRows(db.calls[i].url)
    /\ ScrapedWithinHour(db.contacts[k])
    /\ db' = [db EXCEPT !.calls = Without(@, i),
                        !.returned = [url |-> db.calls[i].url, id |-> db.contacts[k].id, inserted |-> FALSE]]
    /\ UNCHANGED <<monitor, ui, main, crawler, rawData, emails, phones, names, result, scored, memo>>

\* dbGet resolves for call i with no row, or with a row that is not within
\* the hour: the call goes on to await this.dbRun(INSERT INTO contacts ...).
DbGetReturns(i) ==
    /\ i \in 1..Len(db.calls)
    /\ db.calls[i].pc = "dbGet"
    /\ \/ LatestRows(db.calls[i].url) = {}
       \/ \E k \in LatestRows(db.calls[i].url) : ~ScrapedWithinHour(db.contacts[k])
    /\ db' = [db EXCEPT !.calls[i].pc = "dbRun"]
    /\ UNCHANGED <<monitor, ui, main, crawler, rawData, emails, phones, names, result, scored, memo>>

\* The INSERT of call i runs and dbRun resolves: the call stores the emails,
\* phones and names under the new id and returns it (lines 166-198).
InsertContact(i) ==
    /\ i \in 1..Len(db.calls)
    /\ db.calls[i].pc = "dbRun"
    /\ Len(db.contacts) < MaxRows
    /\ db' = [db EXCEPT !.calls = Without(@, i),
                        !.lastID = @ + 1,
                        !.contacts = Append(@, Row(db.lastID + 1, db.calls[i].url, db.now)),
                        !.returned = [url |-> db.calls[i].url, id |-> db.lastID + 1, inserted |-> TRUE]]
    /\ UNCHANGED <<monitor, ui, main, crawler, rawData, emails, phones, names, result, scored, memo>>

\* Half an hour passes.
HalfHourPasses ==
    /\ db.now < MaxNow
    /\ db' = [db EXCEPT !.now = @ + 1]
    /\ UNCHANGED <<monitor, ui, main, crawler, rawData, emails, phones, names, result, scored, memo>>

DbNext ==
    \/ \E url \in StoredUrls : StoreContactData(url)
    \/ \E i \in 1..MaxStores, k \in 1..MaxRows : SkipDuplicate(i, k)
    \/ \E i \in 1..MaxStores : DbGetReturns(i)
    \/ \E i \in 1..MaxStores : InsertContact(i)
    \/ HalfHourPasses

SpecDb == DbInit /\ [][DbNext]_vars

(***************************************************************************)
(* DataScraperUI and the main process: Start, Stop and quitting            *)
(***************************************************************************)
\* At most MaxAwaiting invocations of startScraping and stopScraping await
\* their reply, and at most MaxHandlers handlers of the main process are in
\* flight.
MaxAwaiting == 2
MaxHandlers == 2

Platforms == {"win32", "darwin", "linux"}

UiInit ==
    /\ rawData = Page(JsString(""), JsString(""))
    /\ emails = NotCalled
    /\ phones = NotCalled
    /\ names = NotCalled
    /\ result = NotProcessed
    /\ scored = NoScore
    /\ memo = <<>>
    /\ crawler = NewCrawler(DefaultOptions, NoRobotsTxt)
    /\ monitor = NewBrowserMonitor
    /\ db = NewDatabaseManager(0)
    /\ ui = NewDataScraperUI(FALSE)
    /\ main \in {NewMain(platform) : platform \in Platforms}

\* The renderer runs while the window is open and the application has not quit.
Rendering == main.phase = "running" /\ main.windowOpen

\* An invocation that awaits its reply; reply is "" until the handler of the
\* main process has returned one.
Awaiting(op, reply) == [op |-> op, reply |-> reply]

\* startScraping() up to await window.electronAPI.startScraping(), called by
\* a click on the Start button (byClick, which a disabled button does not
\* deliver) or by the keys Ctrl+Shift+S.
UiStartScraping(byClick) ==
    /\ Rendering
    /\ byClick => ~ui.startDisabled
    /\ Len(ui.calls) < MaxAwaiting
    /\ ui' = [ui EXCEPT !.startDisabled = TRUE, !.toast = "Starting scraper...",
                        !.calls = Append(@, Awaiting("start", ""))]
    /\ UNCHANGED <<monitor, db, main, crawler, rawData, emails, phones, names, result, scored, memo>>

\* stopScraping() up to await window.electronAPI.stopScraping(), called by a
\* click on the Stop button.
UiStopScraping ==
    /\ Rendering
    /\ ~ui.stopDisabled
    /\ Len(ui.calls) < MaxAwaiting
    /\ ui' = [ui EXCEPT !.stopDisabled = TRUE, !.toast = "Stopping scraper...",
                        !.calls = Append(@, Awaiting("stop", ""))]
    /\ UNCHANGED <<monitor, db, main, crawler, rawData, emails, phones, names, result, scored, memo>>

\* ipcMain.handle('start-scraping') for call i. outcome: "initFailed" when
\* initializeDataScraper fails, "startFailed" when dataScraper.start() throws,
\* "started" otherwise.
HandleStartScraping(i, outcome) ==
    /\ main.phase = "running"
    /\ i \in 1..Len(ui.calls)
    /\ ui.calls[i] = Awaiting("start", "")
    /\ outcome = "initFailed" => ~main.dataScraper
    /\ main' = [main EXCEPT !.dataScraper = @ \/ outcome # "initFailed",
                            !.isScrapingActive = @ \/ outcome = "started"]
    /\ ui' = [ui EXCEPT !.calls[i].reply = IF outcome = "started" THEN "success" ELSE "error"]
    /\ UNCHANGED <<monitor, db, crawler, rawData, emails, phones, names, result, scored, memo>>

\* ipcMain.handle('stop-scraping') for call i; stopped is FALSE when
\* dataScraper.stop() throws.
HandleStopScraping(i, stopped) ==
    /\ main.phase = "running"
    /\ i \in 1..Len(ui.calls)
    /\ ui.calls[i] = Awaiting("stop", "")
    /\ ~stopped => main.dataScraper
    /\ main' = [main EXCEPT !.isScrapingActive = @ /\ ~stopped]
    /\ ui' = [ui EXCEPT !.calls[i].reply = IF stopped THEN "success" ELSE "error"]
    /\ UNCHANGED <<monitor, db, crawler, rawData, emails, phones, names, result, scored, memo>>

\* The reply to call i of startScraping arrives (lines 460-472).
StartReplies(i) ==
    /\ Rendering
    /\ i \in 1..Len(ui.calls)
    /\ ui.calls[i].op = "start" /\ ui.calls[i].reply # ""
    /\ LET replied == [ui EXCEPT !.calls = Without(@, i)]
           shown == IF ui.calls[i].reply = "success"
                    THEN [updateUIState([replied EXCEPT !.isScrapingActive = TRUE])
                             EXCEPT !.toast = "Scraping started! Browse websites to collect data."]
                    ELSE [replied EXCEPT !.toast = "Failed to start scraping"]
       IN  ui' = [shown EXCEPT !.startDisabled = FALSE]
    /\ UNCHANGED <<monitor, db, main, crawler, rawData, emails, phones, names, result, scored, memo>>

\* The reply to call i of stopScraping arrives (lines 482-494).
StopReplies(i) ==
    /\ Rendering
    /\ i \in 1..Len(ui.calls)
    /\ ui.calls[i].op = "stop" /\ ui.calls[i].reply # ""
    /\ LET replied == [ui EXCEPT !.calls = Without(@, i)]
           shown == IF ui.calls[i].reply = "success"
                    THEN [updateUIState([replied EXCEPT !.isScrapingActive = FALSE])
                             EXCEPT !.toast = "Scraping stopped."]
                    ELSE [replied EXCEPT !.toast = "Failed to stop scraping"]
       IN  ui' = [shown EXCEPT !.stopDisabled = FALSE]
    /\ UNCHANGED <<monitor, db, main, crawler, rawData, emails, phones, names, result, scored, memo>>

UiNext ==
    \/ \E byClick \in BOOLEAN : UiStartScraping(byClick)
    \/ UiStopScraping
    \/ \E i \in 1..MaxAwaiting, outcome \in {"initFailed", "startFailed", "started"} : HandleStartScraping(i, outcome)
    \/ \E i \in 1..MaxAwaiting, stopped \in BOOLEAN : HandleStopScraping(i, stopped)
    \/ \E i \in 1..MaxAwaiting : StartReplies(i)
    \/ \E i \in 1..MaxAwaiting : StopReplies(i)

SpecUi == UiInit /\ [][UiNext]_vars

\* A handler of the main process that awaits dataScraper.stop() (pc "stop"),
\* or that resumes after it (pc "resume").
Handler(event, pc) == [event |-> event, pc |-> pc]

\* app.quit() called in state m: Electron emits before-quit, whose handler
\* (lines 443-455) calls event.preventDefault() and awaits dataScraper.stop()
\* when scraping is active; when the event is not prevented the windows are
\* closed and the application quits.
AppQuit(m) ==
    IF m.dataScraper /\ m.isScrapingActive
    THEN [m EXCEPT !.handlers = Append(@, Handler("before-quit", "stop")), !.quitPrevented = TRUE]
    ELSE [m EXCEPT !.phase = "quit", !.windowOpen = FALSE]

\* The user quits the application (the Quit item of the menu, line 109).
UserQuits ==
    /\ main.phase = "running"
    /\ Len(main.handlers) < MaxHandlers
    /\ main' = AppQuit(main)
    /\ UNCHANGED <<monitor, db, ui, crawler, rawData, emails, phones, names, result, scored, memo>>

\* The user closes the window: the window-all-closed handler (lines 426-441)
\* awaits dataScraper.stop() when scraping is active, and otherwise calls
\* app.quit() at once unless the platform is darwin.
UserClosesWindow ==
    /\ main.phase = "running" /\ main.windowOpen
    /\ Len(main.handlers) < MaxHandlers
    /\ LET closed == [main EXCEPT !.windowOpen = FALSE]
       IN  main' = IF main.dataScraper /\ main.isScrapingActive
                   THEN [closed EXCEPT !.handlers = Append(@, Handler("window-all-closed", "stop"))]
                   ELSE IF main.platform = "darwin" THEN closed
                   ELSE AppQuit(closed)
    /\ UNCHANGED <<monitor, db, ui, crawler, rawData, emails, phones, names, result, scored, memo>>

\* dataScraper.stop() resolves or rejects for handler i.
StopSettles(i) ==
    /\ main.phase = "running"
    /\ i \in 1..Len(main.handlers)
    /\ main.handlers[i].pc = "stop"
    /\ main' = [main EXCEPT !.handlers[i].pc = "resume"]
    /\ UNCHANGED <<monitor, db, ui, crawler, rawData, emails, phones, names, result, scored, memo>>

\* Handler i resumes: before-quit calls app.quit() (lines 449 and 452),
\* window-all-closed calls it unless the platform is darwin (lines 438-440).
HandlerResumes(i) ==
    /\ main.phase = "running"
    /\ i \in 1..Len(main.handlers)
    /\ main.handlers[i].pc = "resume"
    /\ LET left == [main EXCEPT !.handlers = Without(@, i)]
       IN  main' = IF main.handlers[i].event = "window-all-closed" /\ main.platform = "darwin" THEN left
                   ELSE AppQuit(left)
    /\ UNCHANGED <<monitor, db, ui, crawler, rawData, emails, phones, names, result, scored, memo>>

MainNext ==
    \/ UiNext
    \/ UserQuits
    \/ UserClosesWindow
    \/ \E i \in 1..MaxHandlers : StopSettles(i)
    \/ \E i \in 1..MaxHandlers : HandlerResumes(i)

\* The event loop runs every handler that can go on: a settled promise
\* resumes its handler, and the IPC requests are handled and replied to.
MainFairness ==
    /\ WF_vars(\E i \in 1..MaxHandlers : StopSettles(i))
    /\ WF_vars(\E i \in 1..MaxHandlers : HandlerResumes(i))

SpecMain == UiInit /\ [][MainNext]_vars /\ MainFairness

(***************************************************************************)
(* Properties of the extractors                                            *)
(***************************************************************************)
Elems(seq) == {seq[i] : i \in 1..Len(seq)}

TextOnly(text) == Page(JsString(text), JsString(""))

\* C1: every address in the list extractEmails(text, html) returns satisfies
\* isValidEmail, is not an isEmailFalsePositive and satisfies
\* isValidEmailDomain, whichever pass found it (text pattern, mailto link,
\* script or data attribute, structured data).
C1_ReturnedEmailsAreValidated ==
    (emails.called /\ ~emails.threw) =>
        \A e \in Elems(emails.value) :
            isValidEmail(e) /\ ~isEmailFalsePositive(e) /\ isValidEmailDomain(e)

ContactHtmlEmails == EmailsFromHtml(ContactHtml)

\* A page whose text and html give addresses on every path, one of them
\* (test@example.com, in a mailto link) a false positive.
C1_EveryPathFound ==
    /\ rawData = Page(JsString("alice@acme.org"), JsString(ContactHtml))
    /\ emails.called
    /\ Contains(ContactHtmlEmails, "test@example.com")
    /\ Elems(emails.value) = {"alice@acme.org", "joe@firm.org", "x.y@firm.org", "sue@firm.org", "info@firm.org"}

\* C2: for the text "Contact John Smith at john.smith@company.com or call
\* (555) 123-4567." extractEmails returns a list containing
\* john.smith@company.com, extractPhoneNumbers a list containing a value whose
\* digits are 5551234567, and extractNames a list containing "John Smith".
C2_ContactSentenceExtracted ==
    rawData = TextOnly(ContactText) =>
        /\ emails.called => Contains(emails.value, "john.smith@company.com")
        /\ phones.called => \E ph \in Elems(phones.value) : DigitsOnly(ph) = "5551234567"
        /\ names.called => Contains(names.value, "John Smith")

\* C3: each of the six confidence functions returns a value v with
\* 0.1 <= v <= 1.0, for every email, phone or name and every source URL.
C3_ConfidenceWithinBounds ==
    scored.by # "none" =>
        /\ ~FLess(scored.confidence, Tenths(1))
        /\ ~FLess(Tenths(10), scored.confidence)

\* A name whose indicators add up to more than 1.0, scored by WebScraper.
C3_SumAboveOne ==
    /\ scored.by = "WebScraper.calculateNameConfidence"
    /\ scored.value = "Mary Anne Watson"
    /\ FLess(Tenths(10), NameScore(scored.value))
    /\ scored.confidence = Tenths(10)

\* C4: when text is undefined, null or not a string, extractEmails,
\* extractPhoneNumbers and extractNames each return an empty list and do not
\* throw.
C4_AbsentTextGivesEmptyList ==
    rawData.textContent.type # "string" =>
        /\ emails.called => (~emails.threw /\ emails.value = <<>>)
        /\ phones.called => (~phones.threw /\ phones.value = <<>>)
        /\ names.called => (~names.threw /\ names.value = <<>>)

C6_OneRecordForAB ==
    (rawData = TextOnly(DuplicateText) /\ emails.called) => emails.value = <<"a@b.com">>

\* C6: deduplication of emails is case-insensitive on the full address: no
\* two returned addresses are equal up to case; a text holding
\* "alice@acme.org" and "ALICE@ACME.ORG" twice each gives exactly one record,
\* "alice@acme.org"; the text with "a@b.com" and "A@B.COM" gives none, the
\* address being a false positive (single-character local part and domain).
C6_DedupIgnoresCase ==
    (emails.called /\ ~emails.threw) =>
        /\ \A i, j \in 1..Len(emails.value) :
               ToLower(emails.value[i]) = ToLower(emails.value[j]) => i = j
        /\ rawData = TextOnly(DuplicateValid) => emails.value = <<"alice@acme.org">>
        /\ rawData = TextOnly(DuplicateText) => emails.value = <<>>

DuplicateValidMatches == MatchesOfAll(emailPatterns, DuplicateValid)

\* Four candidates in both spellings, one record.
C6_FourSpellingsOneRecord ==
    /\ rawData = TextOnly(DuplicateValid)
    /\ emails.called
    /\ Len(DuplicateValidMatches) >= 4
    /\ Contains(DuplicateValidMatches, "ALICE@ACME.ORG")
    /\ Contains(DuplicateValidMatches, "alice@acme.org")
    /\ emails.value = <<"alice@acme.org">>

\* C7: extractPhoneNumbers returns at most one entry per digits-only value,
\* even when the number appears in the text with different separators.
C7_OneEntryPerDigits ==
    (phones.called /\ ~phones.threw) =>
        \A i, j \in 1..Len(phones.value) :
            DigitsOnly(phones.value[i]) = DigitsOnly(phones.value[j]) => i = j

\* The valid, non-false-positive addresses of each page, before any cap.
PageEmailTable ==
    {<<p, FilterEmails(EmailSet(combinedText(p), p.content))>> : p \in {q \in Pages : ~Truthy(q.content)}}

PageEmails(page) == Lookup(PageEmailTable, page)

\* C8: when a page holds more distinct valid emails than the caps, no valid,
\* non-false-positive email left out of processScrapedData's emails has a
\* strictly higher calculateEmailConfidence than one that is returned.
C8_TopConfidenceEmailsReturned ==
    (result.called /\ ~result.threw /\ Len(PageEmails(rawData)) > 15) =>
        \A e \in Elems(PageEmails(rawData)) \ Elems(result.emails) :
            \A r \in Elems(result.emails) :
                ~FLess(calculateEmailConfidence(r), calculateEmailConfidence(e))

\* C9: extractEmails returns at most 15 entries, extractPhoneNumbers at most
\* 10 and extractNames at most 8.
C9_ListsAreCapped ==
    /\ Len(emails.value) <= 15
    /\ Len(phones.value) <= 10
    /\ Len(names.value) <= 8

OverfullEmails == FilterEmails(EmailSet(Overfull, JsString("")))
OverfullPhones == FilterPhones(PhoneSet(Overfull, JsString("")))
OverfullNames == FilterNames(NameSet(Overfull, JsString("")))

\* A page with 16 addresses, 11 numbers and 9 names, all three lists cut.
C9_EveryCapReached ==
    /\ rawData = TextOnly(Overfull)
    /\ Len(OverfullEmails) = 16
    /\ Len(OverfullPhones) = 11
    /\ Len(OverfullNames) = 9
    /\ Len(emails.value) = 15
    /\ Len(phones.value) = 10
    /\ Len(names.value) = 8

\* YYYY-MM-DD, YYYY/MM/DD or MM/DD/YYYY
DateShaped(s) == Test(Alt(SubSeq(SKIP_PHONE_REGEXS, 1, 3)), s)

\* What the text pass and the url pass hand to isValidPhoneNumber, per page.
PhoneCandidateTable ==
    {<<p, PhoneMatches(p.textContent.v)
          \o (IF Truthy(p.content) THEN TelUrlNumbers(extractUrlsFromHtml(p.content.v)) ELSE <<>>)>> :
        p \in {q \in Pages : q.textContent.type = "string"}}

PhoneCandidates(page) == Lookup(PhoneCandidateTable, page)

\* C10: a phone candidate whose matched text has a date shape is rejected by
\* validation and never appears in the output of extractPhoneNumbers;
\* extractPhoneNumbers("Invoice date: 2023-11-10") returns the empty list.
C10_DatesAreNotPhones ==
    (phones.called /\ ~phones.threw) =>
        /\ \A c \in Elems(PhoneCandidates(rawData)) : DateShaped(c) => ~ValidPhone(c)
        /\ \A ph \in Elems(phones.value) : ~DateShaped(ph)
        /\ rawData = TextOnly(InvoiceText) => phones.value = <<>>

\* Dates among the candidates of the text and of the telephone links.
C10_DateCandidatesSeen ==
    /\ rawData = Page(JsString(InvoiceText), JsString(DatedHtml))
    /\ phones.called
    /\ {"11/10/2023", "2023/11/10", "2023-11-10"} \subseteq Elems(PhoneCandidates(rawData))
    /\ phones.value = <<>>

\* The address of a mailto target: what precedes the query string.
TargetAddress(target) == Split(target, "?")[1]

PassesValidation(e) == isValidEmail(e) /\ ~isEmailFalsePositive(e) /\ isValidEmailDomain(e)

\* For each list of targets, the addresses that pass validation.
ValidTargetTable ==
    {<<MailtoPage(targets), {a \in {TargetAddress(t) : t \in Elems(targets)} : PassesValidation(a)}>> :
        targets \in MailtoTargets}

FirmMailtoPage == MailtoPage(<<"info@firm.org">>)

QueryMailtoPage ==
    MailtoPage(<<"Sales@Firm.org?subject=Hi", "test@example.com", "nobody", "joe@firm.org?cc=sue@firm.org">>)

SixteenMailtoPage == MailtoPage(Split(SixteenEmails, " "))

C11_SixteenMailtoLinks ==
    /\ rawData = SixteenMailtoPage
    /\ emails.called
    /\ ~Contains(emails.value, "zoe.young@acme.org")

\* The digits of a string, in order.
Digits(s) == Concat([i \in 1..Len(s) |-> IF SubSeq(s, i, i) \in Digit THEN SubSeq(s, i, i) ELSE ""])

Formatters == {"WebScraper.formatPhoneNumber", "DataProcessor.formatPhone"}

\* C12: formatPhoneNumber (and DataProcessor.formatPhone) preserves digits:
\* a string d of 10 digits is rendered "(XXX) XXX-XXXX" with the digits of d
\* in order, and for every input p the digits of the rendering are the digits
\* of p.
C12_FormattingKeepsDigits ==
    \A i \in 1..Len(memo) :
        memo[i].op \in Formatters =>
            /\ Digits(memo[i].out) = Digits(memo[i].args)
            /\ (Len(memo[i].args) = 10 /\ Digits(memo[i].args) = memo[i].args) =>
                   memo[i].out = "(" \o SubSeq(memo[i].args, 1, 3) \o ") " \o SubSeq(memo[i].args, 4, 6)
                                 \o "-" \o SubSeq(memo[i].args, 7, 10)

\* An 11-digit number was formatted by WebScraper, and the rendering by
\* DataProcessor.
C12_FormattedByBoth ==
    memo = <<Applied("WebScraper.formatPhoneNumber", "14152345678", "+1 (415) 234-5678"),
             Applied("DataProcessor.formatPhone", "+1 (415) 234-5678", "+1 (415) 234-5678")>>

\* C13: de-obfuscation is idempotent: for every string s,
\* cleanObfuscatedEmail(cleanObfuscatedEmail(s)) equals cleanObfuscatedEmail(s).
C13_CleaningTwiceIsCleaningOnce ==
    \A i \in 1..(Len(memo) - 1) :
        (/\ memo[i].op = "WebScraper.cleanObfuscatedEmail"
         /\ memo[i + 1].op = "WebScraper.cleanObfuscatedEmail"
         /\ memo[i + 1].args = memo[i].out) => memo[i + 1].out = memo[i].out

\* C19: for the cleaned form of a 10-digit North American number, or of an
\* 11-digit one with leading 1, whatever separators the original used,
\* isValidPhoneNumber returns false exactly when the area code or the exchange
\* starts with 0 or 1, and true otherwise; "(415) 234-5678" is accepted.
C19_NanpRuleDecides ==
    \A i \in 1..(Len(memo) - 1) :
        (/\ memo[i].op = "WebScraper.cleanPhoneNumber"
         /\ memo[i + 1].op = "WebScraper.isValidPhoneNumber"
         /\ memo[i + 1].args = memo[i].out
         /\ \/ Len(Digits(memo[i].args)) = 10
            \/ Len(Digits(memo[i].args)) = 11 /\ StartsWith(Digits(memo[i].args), "1")) =>
            LET digits == Digits(memo[i].args)
                number == IF Len(digits) = 11 THEN SubSeq(digits, 2, 11) ELSE digits
            IN  memo[i + 1].out = (SubSeq(number, 1, 1) \notin {"0", "1"} /\ SubSeq(number, 4, 4) \notin {"0", "1"})

\* "(XXX) XXX-XXXX" and "+1 (XXX) XXX-XXXX" made of the given ten digits.
Display(prefix, ten) ==
    prefix \o "(" \o SubSeq(ten, 1, 3) \o ") " \o SubSeq(ten, 4, 6) \o "-" \o SubSeq(ten, 7, 10)

\* C20: WebScraper.formatPhoneNumber renders every input with exactly 10
\* digits as "(XXX) XXX-XXXX" and every input with exactly 11 digits starting
\* with 1 as "+1 (XXX) XXX-XXXX", with or without a leading '+' in the input,
\* and renders no other input in those two forms.
C20_DisplayDependsOnDigitsOnly ==
    \A i \in 1..Len(memo) :
        memo[i].op = "WebScraper.formatPhoneNumber" =>
            LET digits == Digits(memo[i].args)
            IN  IF Len(digits) = 10 THEN memo[i].out = Display("", digits)
                ELSE IF Len(digits) = 11 /\ StartsWith(digits, "1")
                     THEN memo[i].out = Display("+1 ", SubSeq(digits, 2, 11))
                ELSE Len(digits) < 10 \/ memo[i].out \notin {Display("", SubSeq(digits, 1, 10)),
                                                               Display("+1 ", SubSeq(digits, 2, 11))}

Pairs(n) == {<<i, j>> \in (1..n) \X (1..n) : i < j}

\* A name with every run of whitespace made one blank.
Collapsed(s) ==
    Concat([i \in 1..Len(s) |->
        IF SubSeq(s, i, i) \notin Space THEN SubSeq(s, i, i)
        ELSE IF i > 1 /\ SubSeq(s, i - 1, i - 1) \in Space THEN "" ELSE " "])

\* The dedup keys as the spec states them.
FoldedEmail(r) == ToLower(r.email)
DigitsOnlyPhone(r) == Digits(r.phone)
FoldedName(r) == Collapsed(ToLower(r.name))

\* No two records of the list have the same key, and every key of the input
\* list has exactly one record.
OnePerKey(input, output, Key(_)) ==
    /\ \A pair \in Pairs(Len(output)) : Key(output[pair[1]]) # Key(output[pair[2]])
    /\ \A i \in 1..Len(input) : Cardinality({j \in 1..Len(output) : Key(output[j]) = Key(input[i])}) = 1

\* C15: after DataProcessor.deduplicateData no two email records are equal
\* ignoring case, no two phone records have the same digits, no two name
\* records are equal ignoring case with whitespace collapsed, and every key of
\* the input still has exactly one record in the output.
C15_OneRecordPerKey ==
    \A i \in 1..Len(memo) :
        memo[i].op = "DataProcessor.deduplicateData" =>
            /\ OnePerKey(memo[i].args.emails, memo[i].out.emails, FoldedEmail)
            /\ OnePerKey(memo[i].args.phones, memo[i].out.phones, DigitsOnlyPhone)
            /\ OnePerKey(memo[i].args.names, memo[i].out.names, FoldedName)

\* Two spellings of one name were handed over, and one record came back.
C15_TwoSpellingsOneName ==
    /\ memo # <<>>
    /\ memo[1].op = "DataProcessor.deduplicateData"
    /\ Len(memo[1].args.names) = 2
    /\ memo[1].args.names[1].name = "Ada Lovelace"
    /\ memo[1].args.names[2].name = "ada  lovelace"
    /\ Len(memo[1].out.names) = 1

\* The record kept for the key of input[i]: none with that key has a higher
\* confidence, and none of the same confidence comes before it.
KeptIsBest(input, output, Key(_)) ==
    \A i \in 1..Len(input) : \A j \in 1..Len(output) :
        Key(output[j]) = Key(input[i]) =>
            /\ ~FLess(output[j].confidence, input[i].confidence)
            /\ output[j].confidence = input[i].confidence =>
                   output[j] = input[CHOOSE k \in 1..Len(input) :
                                       /\ Key(input[k]) = Key(input[i])
                                       /\ input[k].confidence = input[i].confidence
                                       /\ \A l \in 1..(k - 1) :
                                              ~(Key(input[l]) = Key(input[i])
                                                /\ input[l].confidence = input[i].confidence)]

\* C16: of two records with the same dedup key DataProcessor.deduplicateData
\* retains the one with the higher confidence, and on equal confidence the
\* one that comes first in the input list, for any order of the input list.
C16_HigherConfidenceRetained ==
    \A i \in 1..Len(memo) :
        memo[i].op = "DataProcessor.deduplicateData" =>
            /\ KeptIsBest(memo[i].args.emails, memo[i].out.emails, FoldedEmail)
            /\ KeptIsBest(memo[i].args.phones, memo[i].out.phones, DigitsOnlyPhone)
            /\ KeptIsBest(memo[i].args.names, memo[i].out.names, FoldedName)

\* C17: with enableValidation = false DataProcessor.processEmails filters
\* nothing: every input email whose cleaned form is non-empty appears, cleaned,
\* in the output.
C17_NothingFilteredWithoutValidation ==
    \A i \in 1..Len(memo) :
        (memo[i].op = "DataProcessor.processEmails" /\ ~memo[i].args.config.enableValidation) =>
            \A k \in 1..Len(memo[i].args.emails) :
                Lookup(CleanEmailTable, memo[i].args.emails[k]) # "" =>
                    \E j \in 1..Len(memo[i].out) :
                        memo[i].out[j].email = Lookup(CleanEmailTable, memo[i].args.emails[k])

\* Exactly one '@', a local part, and a domain with a dot in it.
Structural(email) ==
    /\ Len(Split(email, "@")) = 2
    /\ Split(email, "@")[1] # ""
    /\ Split(email, "@")[2] # ""
    /\ Includes(Split(email, "@")[2], ".")

\* C14: every value returned by EnhancedWebScraper.extractEmails, and every
\* email kept by its validateExtractedData, has exactly one '@', non-empty
\* local and domain parts and a dot in the domain, values taken from mailto:
\* links included.
C14_EnhancedEmailsAreStructural ==
    \A i \in 1..Len(memo) :
        /\ memo[i].op = "EnhancedWebScraper.extractEmails" =>
               \A email \in Elems(memo[i].out) : Structural(email)
        /\ memo[i].op = "EnhancedWebScraper.validateExtractedData" =>
               \A email \in Elems(memo[i].out.emails) : Structural(email)

\* The paths a robots.txt written from records lists under Disallow for
\* user-agent *.
DisallowedForAll(records) ==
    UNION {{records[i].disallow[k] : k \in 1..Len(records[i].disallow)} :
               i \in {i \in 1..Len(records) : records[i].agent = "*"}}

DisallowedTable == {<<RobotsFileText(records), DisallowedForAll(records)>> : records \in RobotsFiles}
PathnameTable == {<<page[1], Pathname(page[1])>> : page \in Site}
StartDomain == E_extractDomain(StartUrl)
DomainTable == {<<page[1], E_extractDomain(page[1])>> : page \in Site}

\* C18: with respectRobots enabled, crawlWebsite never scrapes a URL of the
\* start domain whose path begins with a path that the domain's multi-line
\* robots.txt lists under Disallow for user-agent *.
C18_DisallowedPathsNeverScraped ==
    (/\ crawler.options.respectRobots
     /\ crawler.robotsTxt.found
     /\ \E file \in DisallowedTable : file[1] = crawler.robotsTxt.data)
    => \A k \in 1..Len(crawler.visitedUrls) :
           Lookup(DomainTable, crawler.visitedUrls[k].url) = StartDomain
           => ~\E path \in Lookup(DisallowedTable, crawler.robotsTxt.data) :
                   StartsWith(Lookup(PathnameTable, crawler.visitedUrls[k].url), path)

TollFreePrefixes == {"800", "833", "844", "855", "866", "877", "888"}

\* The type the classification rule gives a phone string.
RuledPhoneType(phone) ==
    IF \E prefix \in TollFreePrefixes : StartsWith(Digits(phone), prefix) \/ StartsWith(Digits(phone), "1" \o prefix)
    THEN "toll-free"
    ELSE IF Len(Digits(phone)) = 10 \/ (Len(Digits(phone)) = 11 /\ StartsWith(Digits(phone), "1")) THEN "us-local"
    ELSE IF StartsWith(phone, "+") THEN "international"
    ELSE "other"

RuledPhoneTypeTable == {<<row[1], RuledPhoneType(row[1])>> : row \in ClassifyPhoneTypeTable}

\* C21: classifyPhoneType returns 'toll-free' for the prefixes 800, 833, 844,
\* 855, 866, 877, 888 with an optional leading 1, 'us-local' for other numbers
\* of 10 digits or of 11 digits with a leading 1, 'international' for every
\* other string that starts with '+', and 'other' only for the rest.
C21_PhoneTypeFollowsRule ==
    \A i \in 1..Len(memo) :
        memo[i].op = "WebScraper.classifyPhoneType" => memo[i].out = Lookup(RuledPhoneTypeTable, memo[i].args)

ObfuscatedPages == {Page(JsString(t), JsString("")) : t \in ObfuscatedTexts}

\* C22: an address written in text with an obfuscation marker ([at]/[dot],
\* (at)/(dot), " at "/" dot ", &#64;/&#46;, &at;/&dot;) is returned by
\* extractEmails in its plain form when that form passes validation: each of
\* the texts that hold joe@firm.org obfuscated yields joe@firm.org.
C22_ObfuscatedAddressReturned ==
    (rawData \in ObfuscatedPages /\ emails.called) => Contains(emails.value, "joe@firm.org")

\* Names with a title or a middle initial that hold no placeholder and no
\* business phrase.
TitledNames == {"Dr. Robert Johnson", "Prof. Ada Lovelace", "John A. Smith", "Mary J. Watson"}

\* C23: a name that passes isValidName and contains a period (a title such as
\* 'Dr.', or a middle initial such as 'A.' as normalizeName writes it), and
\* that is no placeholder or business phrase, is not rejected by
\* isNameFalsePositive; 'Dr. Robert Johnson' passes isValidName and is no
\* false positive.
C23_NameWithPeriodAccepted ==
    \A i \in 1..Len(memo) :
        /\ (memo[i].op = "WebScraper.isValidName" /\ memo[i].args \in TitledNames) => memo[i].out = TRUE
        /\ (memo[i].op = "WebScraper.isNameFalsePositive" /\ memo[i].args \in TitledNames) => memo[i].out = FALSE

\* Pairs of names written with the same capitalisation, <<a, b>>: a has one
\* part or more than three, b has two or three.
PartCountPairs ==
    {<<"Madonna", "John Smith">>, <<"Madonna", "Mary Anne Watson">>,
     <<"Mary Anne Jane Watson", "John Smith">>, <<"Mary Anne Jane Watson", "Mary Anne Watson">>}

\* Pairs <<a, b>> of names with as many parts and the same capitalisation: a
\* has fewer than 4 or more than 30 characters without its spaces, b has
\* between 4 and 30.
LengthPairs == {<<"Al", "Alan">>, <<"Bartholomew Maximilian Featherstone", "Mary Anne Watson">>}

RankingScoreTable ==
    {<<pair[2], calculateNameConfidence(pair[2])>> : pair \in PartCountPairs \cup LengthPairs}

\* C24: the calculateNameConfidence in effect at run time penalises part
\* count and length: a name of 1 part or of more than 3 parts scores strictly
\* lower than a name of 2 or 3 parts with the same capitalisation, and a name
\* of fewer than 4 or more than 30 characters without spaces scores strictly
\* lower than an otherwise equal name of ordinary length.
C24_PartCountAndLengthPenalised ==
    scored.by = "WebScraper.calculateNameConfidence" =>
        \A pair \in PartCountPairs \cup LengthPairs :
            scored.value = pair[1] => FLess(scored.confidence, Lookup(RankingScoreTable, pair[2]))

\* The digits of each phone and the folded form of each name that a page of
\* the site yields.
SitePhoneKeys == UNION {{<<row[2].phones[k], Digits(row[2].phones[k])>> : k \in 1..Len(row[2].phones)} : row \in PageDataTable}
SiteNameKeys ==
    UNION {{<<row[2].names[k], Collapsed(ToLower(row[2].names[k]))>> : k \in 1..Len(row[2].names)} : row \in PageDataTable}

\* C25: the contacts that crawlWebsite returns, merged from the pages by
\* aggregateContacts, hold no two phones with the same digits and no two
\* names that are equal up to case and whitespace.
C25_MergedContactsDistinctByKey ==
    crawler.returned.success =>
        /\ \A pair \in Pairs(Len(crawler.returned.phones)) :
               Lookup(SitePhoneKeys, crawler.returned.phones[pair[1]])
                   # Lookup(SitePhoneKeys, crawler.returned.phones[pair[2]])
        /\ \A pair \in Pairs(Len(crawler.returned.names)) :
               Lookup(SiteNameKeys, crawler.returned.names[pair[1]])
                   # Lookup(SiteNameKeys, crawler.returned.names[pair[2]])

\* C26: during one crawlWebsite call, on a link graph with cycles, scrapeUrl
\* is invoked at most once per URL and never for a URL at a depth greater than
\* maxDepth, and results.crawledPages never exceeds maxPages.
C26_CrawlVisitsOnceWithinLimits ==
    /\ \A pair \in Pairs(Len(crawler.visitedUrls)) :
           crawler.visitedUrls[pair[1]].url # crawler.visitedUrls[pair[2]].url
    /\ \A k \in 1..Len(crawler.visitedUrls) : crawler.visitedUrls[k].depth <= crawler.options.maxDepth
    /\ crawler.results.crawledPages <= crawler.options.maxPages

\* A crawl of at most two pages returned after the start page and the page
\* /about, which links back to the start page, to a page one level deeper and
\* to more pages than the limit admits.
C26_StoppedAtTwoPages ==
    /\ crawler.phase = "returned"
    /\ crawler.options.maxPages = 2
    /\ crawler.results.crawledPages = 2
    /\ crawler.visitedUrls = <<[url |-> "https://acme.org/", depth |-> 0],
                               [url |-> "https://acme.org/about", depth |-> 1]>>

\* C27: once stop() has completed (monitoring-stopped emitted), no
\* url-changed event is emitted until start() is called again, also when a
\* poll of checkActiveWindow was in flight when stop() was called.
C27_NoUrlChangedAfterStop ==
    \A pair \in Pairs(Len(monitor.emitted)) :
        (monitor.emitted[pair[1]] = "monitoring-stopped" /\ monitor.emitted[pair[2]] = "url-changed")
            => \E k \in (pair[1] + 1)..(pair[2] - 1) : monitor.emitted[k] = "monitoring-started"

\* C28: storeContactData never inserts a second contacts row for a URL that
\* has a row created within the last hour, also when two calls for the URL
\* are in flight at once, and a call that inserts nothing returns the id of a
\* row of the URL.
C28_OneRowPerUrlAndHour ==
    /\ \A pair \in Pairs(Len(db.contacts)) :
           db.contacts[pair[1]].url = db.contacts[pair[2]].url
               => db.contacts[pair[2]].created_at - db.contacts[pair[1]].created_at >= Hour
    /\ (db.returned.url # "" /\ ~db.returned.inserted)
           => \E k \in 1..Len(db.contacts) :
                  db.contacts[k].id = db.returned.id /\ db.contacts[k].url = db.returned.url

\* C29: whenever no startScraping or stopScraping call is in progress, the
\* Start button is disabled exactly when isScrapingActive is true and the Stop
\* button exactly when it is false, after any sequence of clicks and of
\* successful or failed replies.
C29_ButtonsFollowScrapingState ==
    ui.calls = <<>> =>
        /\ ui.startDisabled = ui.isScrapingActive
        /\ ui.stopDisabled = ~ui.isScrapingActive

\* C30: when the user quits the application while scraping is active, the
\* before-quit handler stops the scraper and the application then eventually
\* quits: the handler, entered again by its own app.quit(), does not cancel
\* the quit for ever.
C30_QuitWhileScrapingQuits == main.quitPrevented ~> main.phase = "quit"

====
